---- MODULE Spec2Model ----
(***************************************************************************)
(* Simulation engine of the crypto strategy simulator: the portfolio       *)
(* state machine shared by HistoricalSimulator (scheduled replay) and      *)
(* RealtimeSimulator (live price feed).                                    *)
(*                                                                         *)
(* Numbers.  The program computes in IEEE doubles.  The model computes in  *)
(* decimal fixed point: the integer n stands for n / Scale.  Sums and      *)
(* differences are exact, a product is rounded to the nearest              *)
(* representable value (exact whenever one factor is a whole number, as    *)
(* all prices used here are), and a quotient is rounded to the nearest     *)
(* representable value, which may lie above or below the true quotient, as *)
(* it does for doubles (10000.0 / 145 * 145 > 10000.0).                    *)
(***************************************************************************)
EXTENDS Integers, Sequences, FiniteSets, TLC

VARIABLES
    driver,              \* "historical" or "realtime": which simulator class this run is
    symbols,             \* self.symbols, in request order
    initial_capital,     \* self.initial_capital
    market,              \* what the data provider returns per symbol: timestamp -> close
    algorithm,           \* the pluggable strategy, by the set of signals it may emit
    algorithm_name,      \* request.algorithm_name
    historical_data,     \* run()'s historical_data / the live driver's historical_data_cache
    portfolio,           \* self.portfolio
    trades,              \* self.trades
    portfolio_history,   \* self.portfolio_history
    peak_value,          \* self.peak_value
    max_drawdown,        \* self.max_drawdown
    benchmark_values,    \* self.benchmark_values
    last_benchmark_date, \* self.last_benchmark_date
    current_date,        \* run()'s loop variable / datetime.now() of the live callback
    current_prices,      \* _process_day's current_prices / the callback's prices
    signals,             \* signals of the tick that are still to be executed
    is_running,          \* RealtimeSimulator.is_running
    price_history,       \* RealtimeSimulator.price_history
    pc,                  \* position of run() / of the price-feed loop
    updates,             \* number of price updates the feed has delivered
    marks,               \* history: total_value of every valuation so far
    issued,              \* history: the signal map each tick went on with (none if the strategy raised)
    calls,               \* history: every generate_signals call, its data argument and outcome
    status,              \* active_simulations[simulation_id]["status"], "none" without an entry
    error,               \* active_simulations[simulation_id]["error"]
    stopped,             \* history: stop() has been called
    now,                 \* datetime.now(), in clock steps
    active_simulations,  \* main.py's registry: simulation id -> entry
    tasks                \* the background tasks, in the order their requests arrived

vars == <<driver, symbols, initial_capital, market, algorithm, historical_data,
          portfolio, trades, portfolio_history, peak_value, max_drawdown,
          benchmark_values, last_benchmark_date, current_date, current_prices,
          signals, is_running, price_history, pc, updates, marks, issued, calls,
          algorithm_name, status, error, stopped, now, active_simulations, tasks>>

registry == <<now, active_simulations, tasks>>

config == <<driver, symbols, initial_capital, market, algorithm, algorithm_name>>

----------------------------------------------------------------------------
(* Bounds of the model *)

\* fixed-point resolution: n stands for n / Scale
Scale == 100
\* timestamps of the two-symbol replay: 0 .. MaxTicks-1
MaxTicks == 3
\* price updates the live feed delivers
MaxUpdates == 3
\* entries the live driver keeps of each history (the program keeps 1000)
HistoryLimit == 2

\* clock steps in one second, the last instant of the clock, and the number
\* of start requests
StepsPerSecond == 2
MaxNow == 3
MaxRequests == 2
\* the limits get_recent_trades is asked for: 0 .. MaxLimit
MaxLimit == 3

----------------------------------------------------------------------------
(* Arithmetic *)

Min(a, b) == IF a <= b THEN a ELSE b

SetMin(S) == CHOOSE x \in S : \A y \in S : x <= y
SetMax(S) == CHOOSE x \in S : \A y \in S : x >= y

\* n / d rounded to the nearest integer, ties to even (d > 0)
Round(n, d) ==
    LET q == n \div d
        r == n % d
    IN  IF 2 * r < d THEN q
        ELSE IF 2 * r > d THEN q + 1
        ELSE IF q % 2 = 0 THEN q ELSE q + 1

\* float multiplication and division
FMul(a, b) == Round(a * b, Scale)
FDiv(a, b) == Round(a * Scale, b)

Num(k) == k * Scale

NoDate == -1
NoSignals == <<>>

\* no "error" key in the registry entry
NoError == ""

\* str(e) of what a strategy raised, and of a float division by zero
StrategyError == "strategy error"
DivisionError == "float division by zero"

----------------------------------------------------------------------------
(* Portfolio and Trade *)

NewPortfolio(capital) ==
    [total_value |-> capital, cash |-> capital, positions |-> <<>>,
     unrealized_pnl |-> 0, realized_pnl |-> 0]

NewTrade(timestamp, symbol, side, quantity, price, value) ==
    [timestamp |-> timestamp, symbol |-> symbol, side |-> side,
     quantity |-> quantity, price |-> price, value |-> value,
     algorithm |-> "SimpleMomentumStrategy"]

\* dict.get(symbol, 0)
PositionOf(positions, symbol) ==
    IF symbol \in DOMAIN positions THEN positions[symbol] ELSE 0

\* positions[symbol] = quantity, creating the key if absent
SetPosition(positions, symbol, quantity) ==
    [s \in (DOMAIN positions) \cup {symbol} |->
        IF s = symbol THEN quantity ELSE positions[s]]

----------------------------------------------------------------------------
(* Valuation: _update_portfolio_value, identical in both simulators *)

RECURSIVE SumOver(_, _)
SumOver(S, f) ==
    IF S = {} THEN 0
    ELSE LET x == CHOOSE y \in S : TRUE
         IN  f[x] + SumOver(S \ {x}, f)

\* the positions the valuation loop adds up: those with a current price
Valued(positions, prices) == (DOMAIN positions) \cap (DOMAIN prices)

MarkToMarketCashOnly(cash, positions, prices) == cash
MarkToMarket(cash, positions, prices) ==
    cash + SumOver(Valued(positions, prices),
                   [s \in Valued(positions, prices) |-> FMul(positions[s], prices[s])])

NewPeak(total_value, peak) == IF total_value > peak THEN total_value ELSE peak

CurrentDrawdown(peak, total_value) == FDiv(peak - total_value, peak)

NewMaxDrawdownLatest(current_drawdown, mdd) == current_drawdown
NewMaxDrawdown(current_drawdown, mdd) ==
    IF current_drawdown > mdd THEN current_drawdown ELSE mdd

UpdatePortfolioValue(pf, peak, mdd, prices) ==
    LET total_value == MarkToMarket(pf.cash, pf.positions, prices)
        new_peak == NewPeak(total_value, peak)
    IN  [portfolio |-> [pf EXCEPT !.total_value = total_value],
         peak_value |-> new_peak,
         max_drawdown |-> NewMaxDrawdown(CurrentDrawdown(new_peak, total_value), mdd)]

----------------------------------------------------------------------------
(* Execution: _execute_trade, identical in both simulators *)

QuantityAny(signal) == TRUE
QuantityPositive(signal) == signal.quantity > 0

BuyQuantity(requested, available_cash, price) ==
    Min(requested, FDiv(available_cash, price))

AffordableAlways(cost, available_cash) == TRUE
Affordable(cost, available_cash) == cost <= available_cash

SellQuantityUncapped(requested, available_quantity) ==
    IF available_quantity > 0 THEN requested ELSE 0
SellQuantityAll(requested, available_quantity) == available_quantity
SellQuantity(requested, available_quantity) ==
    Min(requested, available_quantity)

\* cost = quantity * price, proceeds = quantity * price
TradeValueWithFee(quantity, price) == FMul(quantity, price) + Num(1)
TradeValue(quantity, price) == FMul(quantity, price)

Unchanged(pf, ledger) == [portfolio |-> pf, trades |-> ledger, raised |-> FALSE]

ExecuteBuy(pf, ledger, symbol, signal, price, timestamp) ==
    IF price = 0
    THEN \* available_cash / price raises ZeroDivisionError before any mutation
         [portfolio |-> pf, trades |-> ledger, raised |-> TRUE]
    ELSE LET available_cash == pf.cash
             quantity == BuyQuantity(signal.quantity, available_cash, price)
             cost == TradeValue(quantity, price)
         IN  IF Affordable(cost, available_cash)
             THEN [portfolio |->
                      [pf EXCEPT !.cash = available_cash - cost,
                                 !.positions = SetPosition(pf.positions, symbol,
                                     PositionOf(pf.positions, symbol) + quantity)],
                   trades |-> Append(ledger,
                      NewTrade(timestamp, symbol, "buy", quantity, price, cost)),
                   raised |-> FALSE]
             ELSE Unchanged(pf, ledger)

ExecuteSellLatestOnly(pf, ledger, symbol, signal, price, timestamp) ==
    LET available_quantity == PositionOf(pf.positions, symbol)
        quantity == SellQuantity(signal.quantity, available_quantity)
        proceeds == TradeValue(quantity, price)
    IN  IF quantity > 0
        THEN [portfolio |->
                 [pf EXCEPT !.cash = pf.cash + proceeds,
                            !.positions = SetPosition(pf.positions, symbol,
                                pf.positions[symbol] - quantity)],
              trades |->
                 <<NewTrade(timestamp, symbol, "sell", quantity, price, proceeds)>>,
              raised |-> FALSE]
        ELSE Unchanged(pf, ledger)
ExecuteSell(pf, ledger, symbol, signal, price, timestamp) ==
    LET available_quantity == PositionOf(pf.positions, symbol)
        quantity == SellQuantity(signal.quantity, available_quantity)
        proceeds == TradeValue(quantity, price)
    IN  IF quantity > 0
        THEN [portfolio |->
                 [pf EXCEPT !.cash = pf.cash + proceeds,
                            !.positions = SetPosition(pf.positions, symbol,
                                pf.positions[symbol] - quantity)],
              trades |-> Append(ledger,
                 NewTrade(timestamp, symbol, "sell", quantity, price, proceeds)),
              raised |-> FALSE]
        ELSE Unchanged(pf, ledger)

ExecuteTradeIgnoringAction(pf, ledger, symbol, signal, price, timestamp) ==
    IF signal.action # "sell" /\ QuantityPositive(signal)
    THEN ExecuteBuy(pf, ledger, symbol, signal, price, timestamp)
    ELSE IF signal.action = "sell" /\ QuantityPositive(signal)
    THEN ExecuteSell(pf, ledger, symbol, signal, price, timestamp)
    ELSE Unchanged(pf, ledger)

ExecuteTrade(pf, ledger, symbol, signal, price, timestamp) ==
    IF signal.action = "buy" /\ QuantityPositive(signal)
    THEN ExecuteBuy(pf, ledger, symbol, signal, price, timestamp)
    ELSE IF signal.action = "sell" /\ QuantityPositive(signal)
    THEN ExecuteSell(pf, ledger, symbol, signal, price, timestamp)
    ELSE Unchanged(pf, ledger)

----------------------------------------------------------------------------
(* Benchmark: HistoricalSimulator._calculate_benchmark_value *)

\* the symbols that enter the average at date d, measured against date ref
BenchmarkValid(syms, data, d, ref) ==
    {s \in syms : /\ s \in DOMAIN data
                  /\ d \in DOMAIN data[s]
                  /\ ref \in DOMAIN data[s]
                  /\ data[s][ref] > 0}

SymbolReturnOverCurrent(data, s, d, ref) ==
    FDiv(data[s][d] - data[s][ref], data[s][d])

SymbolReturn(data, s, d, ref) == FDiv(data[s][d] - data[s][ref], data[s][ref])

CalculateBenchmarkValueFromUnit(values, ref, capital, syms, data, d) ==
    IF values = <<>>
    THEN [value |-> Num(1), last_benchmark_date |-> d]
    ELSE LET prev_benchmark == values[Len(values)]
             valid == BenchmarkValid(syms, data, d, ref)
             total_return == SumOver(valid, [s \in valid |-> SymbolReturn(data, s, d, ref)])
             valid_symbols == Cardinality(valid)
         IN  [value |-> IF valid_symbols > 0
                        THEN FMul(prev_benchmark,
                                  Num(1) + FDiv(total_return, Num(valid_symbols)))
                        ELSE prev_benchmark,
              last_benchmark_date |-> d]

CalculateBenchmarkValue(values, ref, capital, syms, data, d) ==
    IF values = <<>>
    THEN [value |-> capital, last_benchmark_date |-> d]
    ELSE LET prev_benchmark == values[Len(values)]
             valid == BenchmarkValid(syms, data, d, ref)
             total_return == SumOver(valid, [s \in valid |-> SymbolReturn(data, s, d, ref)])
             valid_symbols == Cardinality(valid)
         IN  [value |-> IF valid_symbols > 0
                        THEN FMul(prev_benchmark,
                                  Num(1) + FDiv(total_return, Num(valid_symbols)))
                        ELSE prev_benchmark,
              last_benchmark_date |-> d]

----------------------------------------------------------------------------
(* Performance metrics: get_performance_metrics, _calculate_alpha_metrics  *)
(*                                                                         *)
(* A double is finite, NaN or an infinity.  numpy divides by zero without  *)
(* raising: x / 0 is an infinity of the sign of x, 0 / 0 is NaN.           *)

XFin(n) == [kind |-> "finite", v |-> n]
XNaN == [kind |-> "nan", v |-> 0]
XInf(sign) == [kind |-> "inf", v |-> sign]

IsFinite(x) == x.kind = "finite"

\* numpy's a / b
XDiv(a, b) ==
    IF b # 0 THEN XFin(FDiv(a, b))
    ELSE IF a = 0 THEN XNaN
    ELSE IF a > 0 THEN XInf(1) ELSE XInf(-1)

\* a - b of doubles
XSub(a, b) ==
    IF a.kind = "nan" \/ b.kind = "nan" THEN XNaN
    ELSE IF IsFinite(a) /\ IsFinite(b) THEN XFin(a.v - b.v)
    ELSE IF IsFinite(b) THEN a
    ELSE IF IsFinite(a) THEN XInf(-b.v)
    ELSE IF a.v = b.v THEN XNaN ELSE a

\* safe_float
SafeFloat(x) == IF IsFinite(x) THEN x ELSE XFin(0)

Indexes(xs, kind, sign) == {i \in 1..Len(xs) : xs[i].kind = kind /\ xs[i].v = sign}

RECURSIVE SeqSum(_)
SeqSum(ns) == IF ns = <<>> THEN 0 ELSE ns[1] + SeqSum(Tail(ns))

RECURSIVE SqrtBetween(_, _, _)
\* the largest r with r * r <= q, given lo * lo <= q < hi * hi
SqrtBetween(q, lo, hi) ==
    IF hi - lo <= 1 THEN lo
    ELSE LET mid == (lo + hi) \div 2
         IN  IF mid * mid <= q THEN SqrtBetween(q, mid, hi) ELSE SqrtBetween(q, lo, mid)

\* the largest r with r * r <= q
ISqrt(q) == SqrtBetween(q, 0, Min(q, 46340) + 1)

\* np.mean of finite values
MeanOf(ns) == Round(SeqSum(ns), Len(ns))

Abs(n) == IF n < 0 THEN -n ELSE n

\* A double keeps its leading digits at any magnitude.  The fixed-point
\* values keep Coarse steps of the largest, and a product beyond Huge is
\* reported as Huge: a large finite value, never an infinity.
Coarse == 1000
Huge == 1000000000

SatMul(a, b) ==
    IF a = 0 \/ b = 0 THEN 0
    ELSE IF Abs(a) > Huge \div Abs(b) THEN (IF (a > 0) = (b > 0) THEN Huge ELSE -Huge)
    ELSE a * b

\* n times the deviations of the values from their mean, exactly
Deviations(ns) == [i \in 1..Len(ns) |-> Len(ns) * ns[i] - SeqSum(ns)]

\* the step in which deviations are kept: 1 while they are below Coarse
Unit(ds) == SetMax({Abs(ds[i]) : i \in 1..Len(ds)} \cup {0}) \div Coarse + 1

\* the sum of the products of two rows of deviations, the first in steps of k
Products(ds, es, k) == SeqSum([i \in 1..Len(ds) |-> (ds[i] \div k) * es[i]])

\* np.std of finite values (population): 0 exactly when all are equal; a
\* double that is not zero does not round to zero
StdOf(ns) ==
    LET n == Len(ns)
        ds == Deviations(ns)
        k == Unit(ds)
        cs == [i \in 1..n |-> ds[i] \div k]
        r == (ISqrt(Products(cs, cs, 1) \div n) * k) \div n
    IN  IF \A i \in 1..n : ds[i] = 0 THEN 0
        ELSE IF r = 0 THEN 1 ELSE r

\* np.mean of doubles
XMean(xs) ==
    IF Indexes(xs, "nan", 0) # {} THEN XNaN
    ELSE IF Indexes(xs, "inf", 1) # {} /\ Indexes(xs, "inf", -1) # {} THEN XNaN
    ELSE IF Indexes(xs, "inf", 1) # {} THEN XInf(1)
    ELSE IF Indexes(xs, "inf", -1) # {} THEN XInf(-1)
    ELSE XFin(MeanOf([i \in 1..Len(xs) |-> xs[i].v]))

\* np.std of doubles: an infinity minus the infinite mean is NaN
XStd(xs) ==
    IF \E i \in 1..Len(xs) : ~IsFinite(xs[i]) THEN XNaN
    ELSE XFin(StdOf([i \in 1..Len(xs) |-> xs[i].v]))

\* avg / volatility if volatility > 0 else 0; a comparison with NaN is False
SharpeRatioUnguarded(avg, volatility) ==
    IF IsFinite(avg) /\ IsFinite(volatility) THEN XDiv(avg.v, volatility.v) ELSE XNaN
SharpeRatio(avg, volatility) ==
    IF IsFinite(volatility) /\ volatility.v > 0
    THEN (IF IsFinite(avg) THEN XFin(Round(SatMul(avg.v, Scale), volatility.v)) ELSE avg)
    ELSE XFin(0)

IsWinningTradeBuy(trade) == trade.side = "buy"
IsWinningTrade(trade) == trade.side = "sell"

\* len(winning_trades) / len(self.trades) if self.trades else 0
WinRate(ledger) ==
    IF ledger = <<>> THEN XFin(0)
    ELSE XFin(FDiv(Num(Cardinality({k \in 1..Len(ledger) : IsWinningTrade(ledger[k])})),
                   Num(Len(ledger))))

TotalValues(history) == [i \in 1..Len(history) |-> history[i].total_value]

\* np.diff(portfolio_values) / portfolio_values[:-1]
LiveReturns(values) ==
    [i \in 1..(Len(values) - 1) |-> XDiv(values[i + 1] - values[i], values[i])]

RECURSIVE ReplayReturns(_, _)
\* the returns of the first n values, those on a zero value left out
ReplayReturns(values, n) ==
    IF n <= 1 THEN <<>>
    ELSE IF values[n - 1] # 0
         THEN Append(ReplayReturns(values, n - 1),
                     FDiv(values[n] - values[n - 1], values[n - 1]))
         ELSE ReplayReturns(values, n - 1)

NoMetrics == [reported |-> FALSE]

\* RealtimeSimulator.get_performance_metrics
LivePerformanceMetrics(capital, pf, history, ledger, mdd) ==
    IF history = <<>> THEN NoMetrics
    ELSE LET values == TotalValues(history)
             returns == LiveReturns(values)
             avg == IF Len(values) > 1 THEN XMean(returns) ELSE XFin(0)
             volatility == IF Len(values) > 1 THEN XStd(returns) ELSE XFin(0)
         IN  [reported |-> TRUE,
              total_return |-> XFin(FDiv(pf.total_value - capital, capital)),
              daily_return |-> avg,
              sharpe_ratio |-> IF Len(values) > 1 THEN SharpeRatio(avg, volatility)
                               ELSE XFin(0),
              max_drawdown |-> XFin(mdd),
              win_rate |-> WinRate(ledger),
              volatility |-> volatility,
              total_trades |-> Len(ledger)]

RECURSIVE PairedReturns(_, _, _)
\* the (portfolio, benchmark) returns of the first n entries, those on a
\* zero portfolio or benchmark value left out
PairedReturns(values, bench, n) ==
    IF n <= 1 THEN <<>>
    ELSE IF values[n - 1] # 0 /\ bench[n - 1] # 0
         THEN Append(PairedReturns(values, bench, n - 1),
                     <<FDiv(values[n] - values[n - 1], values[n - 1]),
                       FDiv(bench[n] - bench[n - 1], bench[n - 1])>>)
         ELSE PairedReturns(values, bench, n - 1)

NoAlpha ==
    [benchmark_return |-> XFin(0), alpha |-> XFin(0), beta |-> XFin(0),
     excess_return |-> XFin(0), information_ratio |-> XFin(0),
     tracking_error |-> XFin(0)]

\* len(portfolio_returns) < 2 returns the zeros
EnoughPairsOne(n) == n >= 1
EnoughPairs(n) == n >= 2

\* covariance / benchmark_variance if benchmark_variance > 0 else 0, with
\* np.cov over n - 1 and np.var over n
Beta(ps, bs) ==
    LET n == Len(ps)
        ds == Deviations(ps)
        es == Deviations(bs)
        k == Unit(ds)
    IN  IF Products(es, es, 1) > 0
        THEN SatMul(Round(Products(ds, es, k) * n * Scale,
                          Products(es, es, 1) * (n - 1)), k)
        ELSE 0

\* HistoricalSimulator._calculate_alpha_metrics
CalculateAlphaMetrics(history, bench) ==
    IF Len(history) < 2 \/ Len(bench) < 2 THEN NoAlpha
    ELSE LET values == TotalValues(history)
             pairs == PairedReturns(values, bench, Len(values))
             ps == [i \in 1..Len(pairs) |-> pairs[i][1]]
             bs == [i \in 1..Len(pairs) |-> pairs[i][2]]
             excess == [i \in 1..Len(pairs) |-> pairs[i][1] - pairs[i][2]]
             total_portfolio == XDiv(values[Len(values)] - values[1], values[1])
             total_benchmark == XDiv(bench[Len(bench)] - bench[1], bench[1])
             tracking_error == XStd([i \in 1..Len(excess) |-> XFin(excess[i])])
         IN  IF ~EnoughPairs(Len(pairs)) THEN NoAlpha
             \* a first value of 0 that is the cash alone is a float, whose
             \* division raises into the except branch; one that went through
             \* the valuation of a position is a numpy double, which divides
             ELSE IF (values[1] = 0 /\ history[1].positions = <<>>) \/ bench[1] = 0
                  THEN NoAlpha
             ELSE [benchmark_return |-> total_benchmark,
                   alpha |-> XFin(MeanOf(ps) - Round(SatMul(Beta(ps, bs), MeanOf(bs)), Scale)),
                   beta |-> XFin(Beta(ps, bs)),
                   excess_return |-> XSub(total_portfolio, total_benchmark),
                   information_ratio |->
                       SharpeRatio(XFin(MeanOf(excess)), tracking_error),
                   tracking_error |-> tracking_error]

\* HistoricalSimulator.get_performance_metrics
ReplayPerformanceMetrics(capital, pf, history, bench, ledger, mdd) ==
    IF history = <<>> THEN NoMetrics
    ELSE LET values == TotalValues(history)
             returns == ReplayReturns(values, Len(values))
             some == returns # <<>>
             avg == IF some THEN XFin(MeanOf(returns)) ELSE XFin(0)
             volatility == IF some THEN XFin(StdOf(returns)) ELSE XFin(0)
             alpha_metrics == CalculateAlphaMetrics(history, bench)
         IN  [reported |-> TRUE,
              total_return |-> SafeFloat(XFin(FDiv(pf.total_value - capital, capital))),
              daily_return |-> SafeFloat(avg),
              sharpe_ratio |-> SafeFloat(IF some THEN SharpeRatio(avg, volatility)
                                         ELSE XFin(0)),
              max_drawdown |-> SafeFloat(XFin(mdd)),
              win_rate |-> SafeFloat(WinRate(ledger)),
              volatility |-> SafeFloat(volatility),
              total_trades |-> Len(ledger),
              benchmark_return |-> alpha_metrics.benchmark_return,
              alpha |-> alpha_metrics.alpha,
              beta |-> alpha_metrics.beta,
              excess_return |-> alpha_metrics.excess_return,
              information_ratio |-> alpha_metrics.information_ratio,
              tracking_error |-> alpha_metrics.tracking_error]

\* the dict get_recent_trades makes of a Trade
TradeDict(trade) ==
    [timestamp |-> trade.timestamp, symbol |-> trade.symbol, side |-> trade.side,
     quantity |-> trade.quantity, price |-> trade.price, value |-> trade.value,
     algorithm |-> trade.algorithm]

\* xs[start:] of Python: a negative start counts from the end, and both
\* ends are clamped to the list
SliceFrom(xs, start) ==
    LET from == IF start < 0 THEN (IF Len(xs) + start < 0 THEN 0 ELSE Len(xs) + start)
                ELSE Min(start, Len(xs))
    IN  SubSeq(xs, from + 1, Len(xs))

\* get_recent_trades: self.trades[-limit:] if self.trades else []
GetRecentTrades(ledger, limit) ==
    LET recent_trades == IF ledger # <<>> THEN SliceFrom(ledger, -limit) ELSE <<>>
    IN  [k \in 1..Len(recent_trades) |-> TradeDict(recent_trades[k])]

\* what GET /api/simulation/{id}/status reports as performance
GetPerformanceMetrics ==
    IF driver = "historical"
    THEN ReplayPerformanceMetrics(initial_capital, portfolio, portfolio_history,
                                  benchmark_values, trades, max_drawdown)
    ELSE LivePerformanceMetrics(initial_capital, portfolio, portfolio_history,
                                trades, max_drawdown)

----------------------------------------------------------------------------
(* The strategy, a black box: at a tick it returns no signals at all or    *)
(* one signal per symbol it was given data for.                            *)

Signal(action, quantity) == [action |-> action, quantity |-> quantity]

Hold == Signal("hold", 0)

StrategyOutputs(data) == {NoSignals} \cup [DOMAIN data -> algorithm]

\* the outcomes of one generate_signals call: a signal map, or an exception
StrategyCalls(data) ==
    {[raised |-> FALSE, signals |-> output] : output \in StrategyOutputs(data)}
        \cup {[raised |-> TRUE, signals |-> NoSignals]}

\* what a call looked like: its timestamp, the bars of the data argument, its outcome
CallRecord(timestamp, data, outcome) ==
    [timestamp |-> timestamp,
     bars |-> [s \in DOMAIN data |-> DOMAIN data[s]],
     raised |-> outcome.raised]

\* signals.items() in the order of self.symbols
SignalItems(output) ==
    LET present == SelectSeq(symbols, LAMBDA s : s \in DOMAIN output)
    IN  [i \in 1..Len(present) |-> <<present[i], output[present[i]]>>]

----------------------------------------------------------------------------
(* main.py: start_historical_simulation / start_realtime_simulation *)

\* the keys of algorithm_map in _create_algorithm
AlgorithmMap == {"SimpleMomentumStrategy"}

\* the algorithm names a request may carry
RequestedNames == {"SimpleMomentumStrategy", "MeanReversionStrategy"}

\* _create_algorithm: whether the constructor gets an algorithm, else ValueError
CreateAlgorithmAlways(name) == TRUE
CreateAlgorithm(name) == name \in AlgorithmMap

\* the handler: construct the simulator, then register it and create its task
StartSimulation ==
    /\ pc = "requested"
    /\ IF CreateAlgorithm(algorithm_name)
       THEN /\ pc' = "created"
            /\ status' = "running"
       \* the ValueError leaves the handler before the entry is stored
       ELSE /\ pc' = "rejected"
            /\ UNCHANGED status
    /\ UNCHANGED <<config, registry, historical_data, portfolio, trades, portfolio_history,
                   peak_value, max_drawdown, benchmark_values, last_benchmark_date,
                   current_date, current_prices, signals, is_running,
                   price_history, updates, marks, issued, calls, error, stopped>>

----------------------------------------------------------------------------
(* HistoricalSimulator.run *)

\* the symbols the provider returned a non-empty frame for
Fetched == {symbols[i] : i \in {j \in 1..Len(symbols) : DOMAIN market[symbols[j]] # {}}}

MinDate(data) == SetMax({SetMin(DOMAIN data[s]) : s \in DOMAIN data})
MaxDate(data) == SetMin({SetMax(DOMAIN data[s]) : s \in DOMAIN data})

PricesAt(data, d) ==
    [s \in {x \in DOMAIN data : d \in DOMAIN data[x]} |-> data[s][d]]

Snapshot(timestamp, pf, benchmark_value) ==
    [timestamp |-> timestamp, total_value |-> pf.total_value, cash |-> pf.cash,
     positions |-> pf.positions, unrealized_pnl |-> pf.unrealized_pnl,
     realized_pnl |-> pf.realized_pnl, benchmark_value |-> benchmark_value]

\* run() up to the loop: reset_simulation, fetch, common date range
Run ==
    /\ driver = "historical"
    /\ pc = "created"
    /\ portfolio' = NewPortfolio(initial_capital)
    /\ trades' = <<>>
    /\ portfolio_history' = <<>>
    /\ peak_value' = initial_capital
    /\ max_drawdown' = 0
    /\ benchmark_values' = <<>>
    /\ last_benchmark_date' = NoDate
    /\ historical_data' = [s \in Fetched |-> market[s]]
    /\ IF Fetched = {}
       THEN /\ pc' = "error"
            /\ status' = "error"
            /\ error' = "No historical data available for any symbol"
            /\ UNCHANGED current_date
       ELSE /\ pc' = "loop"
            /\ current_date' = MinDate(historical_data')
            /\ UNCHANGED <<status, error>>
    /\ UNCHANGED <<config, registry, current_prices, signals, is_running, price_history,
                   updates, marks, issued, calls, stopped>>

\* run() called again on a simulator whose run has ended: the same code
\* from the state the earlier run left; the records of the ticks start anew
\* (RunAgainKeepingLedger: reset_simulation without `self.trades = []`)
RunAgainKeepingLedger ==
    /\ driver = "historical"
    /\ pc \in {"completed", "error"}
    /\ portfolio' = NewPortfolio(initial_capital)
    /\ trades' = trades
    /\ portfolio_history' = <<>>
    /\ peak_value' = initial_capital
    /\ max_drawdown' = 0
    /\ benchmark_values' = <<>>
    /\ last_benchmark_date' = NoDate
    /\ historical_data' = [s \in Fetched |-> market[s]]
    /\ IF Fetched = {}
       THEN /\ pc' = "error"
            /\ status' = "error"
            /\ error' = "No historical data available for any symbol"
            /\ UNCHANGED current_date
       ELSE /\ pc' = "loop"
            /\ current_date' = MinDate(historical_data')
            /\ UNCHANGED <<status, error>>
    /\ marks' = <<>>
    /\ issued' = <<>>
    /\ calls' = <<>>
    /\ UNCHANGED <<config, registry, current_prices, signals, is_running, price_history,
                   updates, stopped>>
RunAgain ==
    /\ driver = "historical"
    /\ pc \in {"completed", "error"}
    /\ portfolio' = NewPortfolio(initial_capital)
    /\ trades' = <<>>
    /\ portfolio_history' = <<>>
    /\ peak_value' = initial_capital
    /\ max_drawdown' = 0
    /\ benchmark_values' = <<>>
    /\ last_benchmark_date' = NoDate
    /\ historical_data' = [s \in Fetched |-> market[s]]
    /\ IF Fetched = {}
       THEN /\ pc' = "error"
            /\ status' = "error"
            /\ error' = "No historical data available for any symbol"
            /\ UNCHANGED current_date
       ELSE /\ pc' = "loop"
            /\ current_date' = MinDate(historical_data')
            /\ UNCHANGED <<status, error>>
    /\ marks' = <<>>
    /\ issued' = <<>>
    /\ calls' = <<>>
    /\ UNCHANGED <<config, registry, current_prices, signals, is_running, price_history,
                   updates, stopped>>

\* _process_day up to the execution loop: prices, valuation, signals
ProcessDay ==
    /\ driver = "historical"
    /\ pc = "loop"
    /\ current_date <= MaxDate(historical_data)
    /\ LET prices == PricesAt(historical_data, current_date)
           marked == UpdatePortfolioValue(portfolio, peak_value, max_drawdown, prices)
       IN  /\ current_prices' = prices
           /\ portfolio' = marked.portfolio
           /\ peak_value' = marked.peak_value
           /\ max_drawdown' = marked.max_drawdown
           /\ marks' = Append(marks, marked.portfolio.total_value)
    /\ \E outcome \in StrategyCalls(historical_data) :
          /\ calls' = Append(calls, CallRecord(current_date, historical_data, outcome))
          /\ signals' = SignalItems(outcome.signals)
          /\ issued' = Append(issued, outcome.signals)
          \* an exception leaves _process_day and run(), which re-raises it
          /\ pc' = IF outcome.raised THEN "error" ELSE "exec"
          /\ status' = IF outcome.raised THEN "error" ELSE status
          /\ error' = IF outcome.raised THEN StrategyError ELSE error
    /\ UNCHANGED <<config, registry, historical_data, trades, portfolio_history,
                   benchmark_values, last_benchmark_date, current_date,
                   is_running, price_history, updates, stopped>>

\* one iteration of the loop over signals.items(), in either simulator
ExecuteNext ==
    /\ pc = "exec"
    /\ signals # <<>>
    /\ LET symbol == signals[1][1]
           signal == signals[1][2]
       IN  IF symbol \in DOMAIN current_prices
           THEN LET done == ExecuteTrade(portfolio, trades, symbol, signal,
                                         current_prices[symbol], current_date)
                IN  /\ portfolio' = done.portfolio
                    /\ trades' = done.trades
                    /\ IF done.raised
                       \* run() re-raises it to run_historical_simulation;
                       \* stream_realtime_data swallows it and returns
                       THEN /\ pc' = IF driver = "historical" THEN "error" ELSE "returned"
                            /\ status' = IF driver = "historical" THEN "error" ELSE status
                            /\ error' = IF driver = "historical" THEN DivisionError ELSE error
                            /\ signals' = <<>>
                       ELSE /\ pc' = pc
                            /\ signals' = Tail(signals)
                            /\ UNCHANGED <<status, error>>
           ELSE /\ signals' = Tail(signals)
                /\ UNCHANGED <<portfolio, trades, pc, status, error>>
    /\ UNCHANGED <<config, registry, historical_data, portfolio_history, peak_value,
                   max_drawdown, benchmark_values, last_benchmark_date,
                   current_date, current_prices, is_running, price_history,
                   updates, marks, issued, calls, stopped>>

\* the rest of the loop body of run(): advance the date, benchmark, snapshot
\* (AdvanceFromPortfolio: the benchmark compounded on the portfolio's value)
AdvanceFromPortfolio ==
    /\ driver = "historical"
    /\ pc = "exec"
    /\ signals = <<>>
    /\ current_date' = current_date + 1
    /\ LET bench == CalculateBenchmarkValue(
                        IF benchmark_values = <<>> THEN <<>> ELSE <<portfolio.total_value>>,
                        last_benchmark_date,
                        initial_capital, {symbols[i] : i \in 1..Len(symbols)},
                        historical_data, current_date')
       IN  /\ benchmark_values' = Append(benchmark_values, bench.value)
           /\ last_benchmark_date' = bench.last_benchmark_date
           /\ portfolio_history' = Append(portfolio_history,
                                      Snapshot(current_date', portfolio, bench.value))
    /\ pc' = "loop"
    /\ UNCHANGED <<config, registry, historical_data, portfolio, trades, peak_value,
                   max_drawdown, current_prices, signals, is_running,
                   price_history, updates, marks, issued, calls,
                   status, error, stopped>>
Advance ==
    /\ driver = "historical"
    /\ pc = "exec"
    /\ signals = <<>>
    /\ current_date' = current_date + 1
    /\ LET bench == CalculateBenchmarkValue(benchmark_values, last_benchmark_date,
                        initial_capital, {symbols[i] : i \in 1..Len(symbols)},
                        historical_data, current_date')
       IN  /\ benchmark_values' = Append(benchmark_values, bench.value)
           /\ last_benchmark_date' = bench.last_benchmark_date
           /\ portfolio_history' = Append(portfolio_history,
                                      Snapshot(current_date', portfolio, bench.value))
    /\ pc' = "loop"
    /\ UNCHANGED <<config, registry, historical_data, portfolio, trades, peak_value,
                   max_drawdown, current_prices, signals, is_running,
                   price_history, updates, marks, issued, calls,
                   status, error, stopped>>

\* the loop condition fails: run() returns and the status becomes completed
Finish ==
    /\ driver = "historical"
    /\ pc = "loop"
    /\ current_date > MaxDate(historical_data)
    /\ pc' = "completed"
    /\ status' = "completed"
    /\ UNCHANGED <<config, registry, historical_data, portfolio, trades, portfolio_history,
                   peak_value, max_drawdown, benchmark_values, last_benchmark_date,
                   current_date, current_prices, signals, is_running,
                   price_history, updates, marks, issued, calls, error, stopped>>

----------------------------------------------------------------------------
(* RealtimeSimulator *)

\* seq[-1000:], the program's 1000 scaled to HistoryLimit
KeepLast(seq) ==
    IF Len(seq) > HistoryLimit
    THEN SubSeq(seq, Len(seq) - HistoryLimit + 1, Len(seq))
    ELSE seq

\* frame.tail(1000), scaled likewise, of a frame indexed by timestamp
TailRows(frame) ==
    IF Cardinality(DOMAIN frame) > HistoryLimit
    THEN [t \in {x \in DOMAIN frame :
                   Cardinality({y \in DOMAIN frame : y > x}) < HistoryLimit} |-> frame[t]]
    ELSE frame

\* pd.concat([frame, new_row]) with the new row at timestamp t
ConcatRow(frame, t, price) ==
    [x \in (DOMAIN frame) \cup {t} |-> IF x = t THEN price ELSE frame[x]]

LiveSnapshot(timestamp, pf) ==
    [timestamp |-> timestamp, total_value |-> pf.total_value, cash |-> pf.cash,
     positions |-> pf.positions, unrealized_pnl |-> pf.unrealized_pnl,
     realized_pnl |-> pf.realized_pnl]

\* the prices one poll of the feed can deliver: a ticker price, or 0.0 when the fetch failed
LivePrices == {0, Num(100), Num(145)}

\* run() up to the start of the stream
RunRealtime ==
    /\ driver = "realtime"
    /\ pc = "created"
    /\ is_running' = TRUE
    /\ historical_data' = [s \in Fetched |-> market[s]]
    /\ pc' = "streaming"
    /\ UNCHANGED <<config, registry, portfolio, trades, portfolio_history, peak_value,
                   max_drawdown, benchmark_values, last_benchmark_date,
                   current_date, current_prices, signals, price_history,
                   updates, marks, issued, calls,
                   status, error, stopped>>

\* _process_realtime_update up to the execution loop
ProcessRealtimeUpdate ==
    /\ driver = "realtime"
    /\ pc = "streaming"
    /\ IF ~is_running
       \* the callback returns at once and the feed loop polls again
       THEN UNCHANGED vars
       ELSE
        /\ updates < MaxUpdates
        /\ updates' = updates + 1
        /\ \E prices \in [{symbols[i] : i \in 1..Len(symbols)} -> LivePrices] :
             LET current_time == updates'
                 marked == UpdatePortfolioValue(portfolio, peak_value, max_drawdown, prices)
             IN  /\ current_prices' = prices
                 /\ current_date' = current_time
                 /\ price_history' =
                       [s \in DOMAIN price_history |->
                           IF s \in DOMAIN prices
                           THEN KeepLast(Append(price_history[s],
                                    [timestamp |-> current_time, price |-> prices[s]]))
                           ELSE price_history[s]]
                 /\ portfolio' = marked.portfolio
                 /\ peak_value' = marked.peak_value
                 /\ max_drawdown' = marked.max_drawdown
                 /\ marks' = Append(marks, marked.portfolio.total_value)
                 /\ historical_data' =
                       [s \in DOMAIN historical_data |->
                           IF s \in DOMAIN prices
                           THEN TailRows(ConcatRow(historical_data[s], current_time, prices[s]))
                           ELSE historical_data[s]]
                 \* _generate_signals turns an exception into no signals
                 /\ \E outcome \in StrategyCalls(historical_data') :
                       /\ calls' = Append(calls,
                                       CallRecord(current_time, historical_data', outcome))
                       /\ signals' = SignalItems(outcome.signals)
                       /\ issued' = Append(issued, outcome.signals)
                 /\ pc' = "exec"
                 /\ UNCHANGED <<config, registry, trades, portfolio_history, benchmark_values,
                                last_benchmark_date, is_running, status, error,
                                stopped>>

\* the end of _process_realtime_update: store the portfolio state
AppendSnapshot ==
    /\ driver = "realtime"
    /\ pc = "exec"
    /\ signals = <<>>
    /\ portfolio_history' =
          KeepLast(Append(portfolio_history, LiveSnapshot(current_date, portfolio)))
    /\ pc' = "streaming"
    /\ UNCHANGED <<config, registry, historical_data, portfolio, trades, peak_value,
                   max_drawdown, benchmark_values, last_benchmark_date,
                   current_date, current_prices, signals, is_running,
                   price_history, updates, marks, issued, calls,
                   status, error, stopped>>

\* stop(), called from outside the price-feed loop
Stop ==
    /\ driver = "realtime"
    /\ pc \in {"created", "streaming", "returned"}
    /\ is_running' = FALSE
    /\ stopped' = TRUE
    /\ UNCHANGED <<config, registry, historical_data, portfolio, trades, portfolio_history,
                   peak_value, max_drawdown, benchmark_values, last_benchmark_date,
                   current_date, current_prices, signals, price_history, pc,
                   updates, marks, issued, calls, status, error>>

---------------------------------------------------------------------------------------------------------------------------------------
(* main.py: the registry of simulations and their background tasks.  Here  *)
(* a simulator is an object named by the number of the request that        *)
(* constructed it, and its run() is one await that returns or raises.      *)

NoSimulator == 0

\* datetime.now().strftime('%Y%m%d_%H%M%S'): the instant cut to its second
Strftime(t) == t \div StepsPerSecond

\* f"hist_{...}" / f"realtime_{...}"
SimulationId(prefix, t) == <<prefix, Strftime(t)>>

Prefix(type) == IF type = "historical" THEN "hist" ELSE "realtime"

NoRequests ==
    /\ now = 0
    /\ active_simulations = <<>>
    /\ tasks = <<>>

\* active_simulations[simulation_id] = {...}; asyncio.create_task(...)
Register(type, name) ==
    LET simulation_id == SimulationId(Prefix(type), now)
        simulator == Len(tasks) + 1
        entry == [id |-> simulation_id, type |-> type, status |-> "running",
                  algorithm |-> name, simulator |-> simulator, error |-> NoError]
    IN  /\ active_simulations' =
               [k \in DOMAIN active_simulations \cup {simulation_id} |->
                   IF k = simulation_id THEN entry ELSE active_simulations[k]]
        /\ tasks' = Append(tasks, [simulation_id |-> simulation_id, type |-> type,
                                   constructed |-> simulator, pc |-> "scheduled",
                                   simulator |-> NoSimulator])

\* the simulator's constructor raises ValueError before anything is stored
StartRequest(type) ==
    /\ Len(tasks) < MaxRequests
    /\ \E name \in RequestedNames :
          IF CreateAlgorithm(name) THEN Register(type, name)
          ELSE UNCHANGED <<active_simulations, tasks>>
    /\ UNCHANGED now

\* the background task takes the simulator stored under its id and awaits run()
TaskCalls(k) ==
    /\ tasks[k].pc = "scheduled"
    /\ tasks' = [tasks EXCEPT ![k].pc = "running",
                              ![k].simulator = active_simulations[tasks[k].simulation_id].simulator]

\* what the task writes into the entry under its id once run() has ended
Written(k, outcome) ==
    LET id == tasks[k].simulation_id
    IN  IF outcome = "raised"
        THEN [active_simulations EXCEPT ![id].status = "error", ![id].error = StrategyError]
        ELSE IF tasks[k].type = "historical"
        THEN [active_simulations EXCEPT ![id].status = "completed"]
        ELSE active_simulations

TaskEnds(k, outcome) ==
    /\ tasks[k].pc = "running"
    /\ tasks' = [tasks EXCEPT ![k].pc = "done"]
    /\ active_simulations' = Written(k, outcome)

SimulatorState == <<config, historical_data, portfolio, trades, portfolio_history,
                    peak_value, max_drawdown, benchmark_values, last_benchmark_date,
                    current_date, current_prices, signals, is_running, price_history,
                    pc, updates, marks, issued, calls, status, error, stopped>>

StartHistoricalSimulation ==
    /\ StartRequest("historical")
    /\ UNCHANGED SimulatorState

StartRealtimeSimulation ==
    /\ StartRequest("realtime")
    /\ UNCHANGED SimulatorState

RunSimulationTask ==
    /\ \E k \in 1..Len(tasks) : TaskCalls(k)
    /\ UNCHANGED <<now, active_simulations, SimulatorState>>

SimulationTaskReturns ==
    /\ \E k \in 1..Len(tasks) : TaskEnds(k, "returned")
    /\ UNCHANGED <<now, SimulatorState>>

SimulationTaskRaises ==
    /\ \E k \in 1..Len(tasks) : TaskEnds(k, "raised")
    /\ UNCHANGED <<now, SimulatorState>>

\* time passes
ClockStep ==
    /\ now < MaxNow
    /\ now' = now + 1
    /\ UNCHANGED <<active_simulations, tasks, SimulatorState>>

-----------------
(* Initial states: a start request has arrived.  The simulator's fields   *)
(* hold what __init__ gives them; no entry is registered and nothing runs  *)
(* until StartSimulation has constructed the simulator.                    *)

Constructed ==
    /\ portfolio = NewPortfolio(initial_capital)
    /\ trades = <<>>
    /\ portfolio_history = <<>>
    /\ peak_value = initial_capital
    /\ max_drawdown = 0
    /\ benchmark_values = <<>>
    /\ last_benchmark_date = NoDate
    /\ historical_data = <<>>
    /\ current_date = NoDate
    /\ current_prices = <<>>
    /\ signals = <<>>
    /\ is_running = FALSE
    /\ price_history = [s \in {symbols[i] : i \in 1..Len(symbols)} |-> <<>>]
    /\ pc = "requested"
    /\ updates = 0
    /\ marks = <<>>
    /\ issued = <<>>
    /\ calls = <<>>
    /\ status = "none"
    /\ error = NoError
    /\ stopped = FALSE

ScenarioPrices == <<Num(100), Num(100), Num(110), Num(90), Num(90)>>

\* replay of one symbol over five hourly bars
InitScenario ==
    /\ driver = "historical"
    /\ symbols = <<"BTC">>
    /\ initial_capital = Num(10000)
    /\ market = [s \in {"BTC"} |-> [t \in 0..4 |-> ScenarioPrices[t + 1]]]
    /\ algorithm = {Signal("hold", Num(50)), Signal("buy", Num(50)), Signal("sell", Num(50))}

\* index sets of a frame that spans 0 .. MaxTicks-1, possibly with missing bars
GappedIndexes == {I \in SUBSET (0..(MaxTicks - 1)) : 0 \in I /\ (MaxTicks - 1) \in I}

\* replay of two symbols, the second with bars missing
InitReplay ==
    /\ driver = "historical"
    /\ symbols = <<"BTC", "ETH">>
    /\ initial_capital = Num(10000)
    /\ \E btc \in [0..(MaxTicks - 1) -> {Num(100), Num(145)}], I \in GappedIndexes :
          market = [s \in {"BTC", "ETH"} |->
                       IF s = "BTC" THEN btc ELSE [t \in I |-> Num(90)]]
    /\ algorithm = {Signal("buy", Num(200)), Signal("sell", Num(200))}

\* the close of a symbol at date t: flat at 100, or leaving 100 at every even date
SeriesPrice(s, shape, t) ==
    IF shape = "flat" \/ t % 2 = 1 THEN Num(100)
    ELSE IF s = "BTC" THEN Num(110) ELSE Num(90)

\* replay of two symbols whose frames cover any dates, possibly none, and
\* possibly no common date
InitCoverage ==
    /\ driver = "historical"
    /\ symbols = <<"BTC", "ETH">>
    /\ initial_capital = Num(10000)
    /\ \E I \in [{"BTC", "ETH"} -> SUBSET (0..(MaxTicks - 1))],
          shape \in [{"BTC", "ETH"} -> {"flat", "swing"}] :
          market = [s \in {"BTC", "ETH"} |-> [t \in I[s] |-> SeriesPrice(s, shape[s], t)]]
    /\ algorithm = {Hold}

\* replay of one symbol at a constant price, possibly with bars missing
\* inside its range, and a strategy that can put all the cash into it
InitOutage ==
    /\ driver = "historical"
    /\ symbols = <<"ETH">>
    /\ initial_capital = Num(10000)
    /\ \E I \in GappedIndexes : market = [s \in {"ETH"} |-> [t \in I |-> Num(100)]]
    /\ algorithm = {Hold, Signal("buy", Num(200))}

\* live run of one symbol
InitLive ==
    /\ driver = "realtime"
    /\ symbols = <<"BTC">>
    /\ initial_capital = Num(10000)
    /\ market = [s \in {"BTC"} |-> [t \in {0} |-> Num(100)]]
    /\ algorithm = {Hold, Signal("buy", 0), Signal("buy", Num(200)),
                    Signal("sell", -Num(50)), Signal("sell", Num(50))}

Init ==
    /\ InitScenario \/ InitReplay \/ InitCoverage \/ InitOutage \/ InitLive
    /\ algorithm_name \in RequestedNames
    /\ Constructed
    /\ NoRequests

\* the states a status or metrics request can see: requests are served by
\* the event loop, which gets control only where the simulator's task awaits
\* something that suspends (the fetch before the replay loop, the feed's
\* sleep between two callbacks) or has ended
ObservableAnywhere == status # "none"
Observable ==
    /\ status # "none"
    /\ pc \in {"created", "streaming", "returned", "completed", "error"}

Next ==
    \/ StartSimulation
    \/ Run
    \/ ProcessDay
    \/ ExecuteNext
    \/ Advance
    \/ Finish
    \/ RunRealtime
    \/ ProcessRealtimeUpdate
    \/ AppendSnapshot
    \/ Stop

Spec == Init /\ [][Next]_vars

\* the replay driver with run() called again after a run has ended
InitRerun ==
    /\ InitScenario \/ InitOutage
    /\ algorithm_name \in RequestedNames
    /\ Constructed
    /\ NoRequests

NextRerun ==
    \/ StartSimulation
    \/ Run
    \/ ProcessDay
    \/ ExecuteNext
    \/ Advance
    \/ Finish
    \/ RunAgain

SpecRerun == InitRerun /\ [][NextRerun]_vars

\* the HTTP API under several start requests
InitRegistry ==
    /\ InitScenario
    /\ algorithm_name = "SimpleMomentumStrategy"
    /\ Constructed
    /\ NoRequests

NextRegistry ==
    \/ StartHistoricalSimulation
    \/ StartRealtimeSimulation
    \/ RunSimulationTask
    \/ SimulationTaskReturns
    \/ SimulationTaskRaises
    \/ ClockStep

SpecRegistry == InitRegistry /\ [][NextRegistry]_vars

----------------------------------------------------------------------------
(* Properties *)

SymbolSet == {symbols[i] : i \in 1..Len(symbols)}

\* the signal the execution loop is about to handle, when it has a fill price
Executing == pc = "exec" /\ signals # <<>> /\ signals[1][1] \in DOMAIN current_prices
NextSymbol == signals[1][1]
NextSignal == signals[1][2]
FillPrice == current_prices[NextSymbol]

\* C1: Portfolio cash is never negative, whatever the ticks, prices and
\* signals, in the replay and in the live driver.
C1_CashNeverNegative == portfolio.cash >= 0

\* a buy capped by affordability has spent the cash to the last unit
C1_Witness ==
    /\ driver = "realtime"
    /\ portfolio.cash = 0
    /\ \E i \in 1..Len(trades) : trades[i].side = "buy" /\ trades[i].quantity < Num(200)

\* C2: the held quantity of every symbol in positions is never negative.
C2_PositionsNeverNegative ==
    \A s \in DOMAIN portfolio.positions : portfolio.positions[s] >= 0

\* a sell request above the held quantity has emptied the position
C2_Witness ==
    /\ driver = "historical"
    /\ \E i \in 1..Len(trades) :
          /\ trades[i].side = "sell"
          /\ trades[i].quantity < Num(200)
          /\ portfolio.positions[trades[i].symbol] = 0

\* the requested quantity, the cash and the holding before the execution
Requested == NextSignal.quantity
HeldBefore == PositionOf(portfolio.positions, NextSymbol)

BuySignalled ==
    /\ Executing
    /\ NextSignal.action = "buy"
    /\ Requested > 0
    /\ FillPrice > 0

\* the fill the buy contract promises: q = min(r, c / p)
BuyFill == IF Requested <= FDiv(portfolio.cash, FillPrice)
           THEN Requested ELSE FDiv(portfolio.cash, FillPrice)

BuyFilled ==
    /\ portfolio'.cash = portfolio.cash - FMul(BuyFill, FillPrice)
    /\ NextSymbol \in DOMAIN portfolio'.positions
    /\ portfolio'.positions[NextSymbol] = HeldBefore + BuyFill
    /\ \A s \in DOMAIN portfolio.positions \ {NextSymbol} :
          portfolio'.positions[s] = portfolio.positions[s]
    /\ Len(trades') = Len(trades) + 1
    /\ SubSeq(trades', 1, Len(trades)) = trades
    /\ trades'[Len(trades')].side = "buy"
    /\ trades'[Len(trades')].symbol = NextSymbol
    /\ trades'[Len(trades')].quantity = BuyFill
    /\ trades'[Len(trades')].price = FillPrice

\* C3: a buy of r > 0 at price p > 0 with cash c fills q = min(r, c/p):
\* cash becomes c - q*p, the position grows by q, one buy Trade (q, p) is
\* appended; a request above affordability is capped, never rejected.
C3_BuyFillsCappedQuantity == [][BuySignalled => BuyFilled]_vars

\* the buy contract on the fills whose cost passes the guard of the code
BuyFillsWhenCostFits ==
    [][(BuySignalled /\ FMul(BuyFill, FillPrice) <= portfolio.cash) => BuyFilled]_vars

SellSignalled ==
    /\ Executing
    /\ NextSignal.action = "sell"
    /\ Requested > 0
    /\ HeldBefore > 0

\* the fill the sell contract promises: q = min(r, h)
SellFill == IF Requested <= HeldBefore THEN Requested ELSE HeldBefore

SellFilled ==
    /\ portfolio'.cash = portfolio.cash + FMul(SellFill, FillPrice)
    /\ DOMAIN portfolio'.positions = DOMAIN portfolio.positions
    /\ portfolio'.positions[NextSymbol] = HeldBefore - SellFill
    /\ \A s \in DOMAIN portfolio.positions \ {NextSymbol} :
          portfolio'.positions[s] = portfolio.positions[s]
    /\ Len(trades') = Len(trades) + 1
    /\ SubSeq(trades', 1, Len(trades)) = trades
    /\ trades'[Len(trades')].side = "sell"
    /\ trades'[Len(trades')].symbol = NextSymbol
    /\ trades'[Len(trades')].quantity = SellFill
    /\ trades'[Len(trades')].price = FillPrice

\* C4: a sell of r > 0 at price p with h > 0 units held fills q = min(r, h):
\* cash grows by q*p, the position becomes h - q, and one sell Trade (q, p)
\* is appended.
C4_SellFillsCappedQuantity == [][SellSignalled => SellFilled]_vars

\* a sell below the holding has left part of the position
C4_Witness ==
    /\ trades # <<>>
    /\ trades[Len(trades)].side = "sell"
    /\ trades[Len(trades)].quantity = Num(50)
    /\ portfolio.positions[trades[Len(trades)].symbol] > 0

NoEffectSignalled ==
    /\ Executing
    /\ \/ NextSignal.action = "hold"
       \/ NextSignal.action \in {"buy", "sell"} /\ Requested <= 0
       \/ NextSignal.action = "sell" /\ HeldBefore = 0

\* C5: a hold signal, a buy or sell with requested quantity <= 0, and a
\* sell of a symbol that is not held (zero or absent) leave cash, positions
\* (keys included) and the trade ledger unchanged.
C5_NoEffectSignals ==
    [][NoEffectSignalled =>
          /\ portfolio'.cash = portfolio.cash
          /\ portfolio'.positions = portfolio.positions
          /\ trades' = trades]_vars

\* the live driver has handled a buy with quantity 0 and stored the tick
C5_Witness ==
    /\ driver = "realtime"
    /\ pc = "streaming"
    /\ issued # <<>>
    /\ Len(portfolio_history) = Len(issued)
    /\ issued[Len(issued)] # NoSignals
    /\ issued[Len(issued)]["BTC"] = Signal("buy", 0)
    /\ current_prices["BTC"] > 0

\* every signal the strategy has returned so far is a hold
OnlyHoldIssued ==
    \A i \in 1..Len(issued) : \A s \in DOMAIN issued[i] : issued[i][s].action = "hold"

\* C6: in a run whose strategy returns only hold signals, for any prices,
\* cash and total_value stay at initial_capital at every tick, positions and
\* the ledger stay empty, and max_drawdown stays 0.
C6_HoldOnlyRunUnchanged ==
    OnlyHoldIssued =>
        /\ portfolio.cash = initial_capital
        /\ portfolio.total_value = initial_capital
        /\ portfolio.positions = <<>>
        /\ trades = <<>>
        /\ max_drawdown = 0
        /\ \A i \in 1..Len(marks) : marks[i] = initial_capital
        /\ \A i \in 1..Len(portfolio_history) :
              /\ portfolio_history[i].total_value = initial_capital
              /\ portfolio_history[i].cash = initial_capital
              /\ portfolio_history[i].positions = <<>>

\* a replay of five ticks has completed on hold signals with a quantity
C6_Witness ==
    /\ driver = "historical"
    /\ pc = "completed"
    /\ Len(issued) = 5
    /\ OnlyHoldIssued
    /\ \A i \in 1..Len(issued) : issued[i] # NoSignals

\* running peak and drawdown of the valuations so far
PeakSoFar(i) == SetMax({initial_capital} \cup {marks[j] : j \in 1..i})
DrawdownAt(i) == FDiv(PeakSoFar(i) - marks[i], PeakSoFar(i))

DrawdownIsRunningMaximum ==
    /\ peak_value = PeakSoFar(Len(marks))
    /\ peak_value >= portfolio.total_value
    /\ max_drawdown = SetMax({0} \cup {DrawdownAt(i) : i \in 1..Len(marks)})

\* C7: max_drawdown never decreases, and after every mark it is the maximum
\* over the ticks so far of (peak-so-far - total_value) / peak-so-far, where
\* peak-so-far is the running maximum of initial_capital and the marked
\* values, non-decreasing and at least the current total_value.
C7_MaxDrawdownMonotone ==
    /\ []DrawdownIsRunningMaximum
    /\ [][max_drawdown' >= max_drawdown /\ peak_value' >= peak_value]_vars

\* the portfolio has recovered part of an earlier drawdown
C7_Witness ==
    /\ Len(marks) >= 3
    /\ max_drawdown > 0
    /\ portfolio.total_value < peak_value
    /\ FDiv(peak_value - portfolio.total_value, peak_value) < max_drawdown

\* the scenario: one symbol priced 100, 100, 110, 90, 90, and a strategy
\* that has issued buy(50) at the first tick and nothing but holds since
ScenarioRun ==
    /\ driver = "historical"
    /\ symbols = <<"BTC">>
    /\ initial_capital = Num(10000)
    /\ market["BTC"] = [t \in 0..4 |-> ScenarioPrices[t + 1]]
    /\ issued # <<>>
    /\ issued[1] = [s \in {"BTC"} |-> Signal("buy", Num(50))]
    /\ \A i \in 2..Len(issued) :
          \A s \in DOMAIN issued[i] : issued[i][s].action = "hold"

\* C8: in the scenario the replay has cash 5000 and position 50 after tick
\* 1, total_value 10500 at tick 3, max_drawdown (10500 - 9500) / 10500 after
\* tick 4, and exactly one trade in the ledger.
C8_Scenario ==
    ScenarioRun =>
        /\ Len(portfolio_history) >= 1 =>
              /\ portfolio_history[1].cash = Num(5000)
              /\ portfolio_history[1].positions = [s \in {"BTC"} |-> Num(50)]
              /\ Len(trades) = 1
              /\ trades[1].side = "buy"
              /\ trades[1].quantity = Num(50)
              /\ trades[1].price = Num(100)
        /\ Len(marks) >= 3 => marks[3] = Num(10500)
        /\ Len(marks) = 3 => portfolio.total_value = Num(10500)
        /\ Len(marks) >= 4 =>
              /\ marks[4] = Num(9500)
              /\ peak_value = Num(10500)
              /\ max_drawdown = FDiv(Num(10500) - Num(9500), Num(10500))

\* the scenario has run through its five ticks
C8_Witness ==
    /\ ScenarioRun
    /\ pc = "completed"
    /\ Len(issued) = 5
    /\ Len(portfolio_history) = 5

\* the date of the tick that produced the i-th snapshot
TickDate(i) ==
    IF driver = "historical"
    THEN MinDate(historical_data) + i - 1
    ELSE portfolio_history[i].timestamp

\* the price entries of s the live driver still keeps for date d
EntriesAt(s, d) ==
    {k \in 1..Len(price_history[s]) : price_history[s][k].timestamp = d}

\* the prices of the tick that produced the i-th snapshot
TickPrices(i) ==
    IF driver = "historical"
    THEN PricesAt(historical_data, TickDate(i))
    ELSE [s \in {x \in DOMAIN price_history : EntriesAt(x, TickDate(i)) # {}} |->
             price_history[s][CHOOSE k \in EntriesAt(s, TickDate(i)) : TRUE].price]

SnapshotValue(snap, prices) ==
    snap.cash + SumOver(DOMAIN snap.positions,
                        [s \in DOMAIN snap.positions |-> (snap.positions[s] * prices[s]) \div Scale])

\* C9: in every history snapshot of a tick at which every held symbol has a
\* price, total_value equals the snapshot's cash plus the sum over its
\* positions of quantity times that tick's price, although total_value is
\* computed before the tick's trades execute.
C9_SnapshotValueConserved ==
    \A i \in 1..Len(portfolio_history) :
        LET snap == portfolio_history[i]
            prices == TickPrices(i)
        IN  (DOMAIN snap.positions \subseteq DOMAIN prices) =>
                snap.total_value = SnapshotValue(snap, prices)

\* a snapshot of a later tick that sold one symbol and bought the other,
\* both priced
C9_Witness ==
    \E i \in 2..Len(portfolio_history) :
        LET snap == portfolio_history[i]
        IN  /\ DOMAIN snap.positions = {"BTC", "ETH"}
            /\ DOMAIN snap.positions \subseteq DOMAIN TickPrices(i)
            /\ snap.positions["ETH"] > 0
            /\ snap.total_value # initial_capital
            /\ \E k \in 1..Len(trades) :
                  trades[k].timestamp = TickDate(i) /\ trades[k].side = "sell"
            /\ \E k \in 1..Len(trades) :
                  trades[k].timestamp = TickDate(i) /\ trades[k].side = "buy"

\* the latest price of s at or before date d
LastKnownPrice(s, d) ==
    historical_data[s][SetMax({t \in DOMAIN historical_data[s] : t <= d})]

\* C10: when a held symbol has no price in the tick's price map, the mark
\* keeps the position's last known contribution in total_value, so a
\* missing price alone causes no fall in total_value and no drawdown.
C10_MissingPriceCarriedForward ==
    driver = "historical" =>
        \A i \in 2..Len(marks) :
            (i - 1 <= Len(portfolio_history)) =>
                LET before == portfolio_history[i - 1]
                    d == TickDate(i)
                IN  marks[i] = before.cash
                        + SumOver(DOMAIN before.positions,
                             [s \in DOMAIN before.positions |->
                                 (before.positions[s] * LastKnownPrice(s, d)) \div Scale])

----------------------------------------------------------------------------
(* The benchmark tracker *)

\* C11: the benchmark sequence has one value per processed tick: it is as
\* long as the portfolio history, at every tick boundary as long as the
\* number of ticks processed, and its first value is exactly initial_capital.
C11_BenchmarkOnePerTick ==
    driver = "historical" =>
        /\ Len(benchmark_values) = Len(portfolio_history)
        /\ pc \in {"loop", "completed"} => Len(benchmark_values) = Len(marks)
        /\ benchmark_values # <<>> => benchmark_values[1] = initial_capital

\* a finished replay of several ticks whose benchmark has moved
C11_Witness ==
    /\ driver = "historical"
    /\ pc = "completed"
    /\ Len(benchmark_values) >= 2
    /\ Len(benchmark_values) = Len(marks)
    /\ benchmark_values[Len(benchmark_values)] # benchmark_values[1]

\* the date the tracker was called with for the i-th benchmark value
BenchmarkDate(i) == portfolio_history[i].timestamp

\* the symbols with a price at both dates
PricedAtBoth(d, ref) ==
    {s \in SymbolSet \cap DOMAIN historical_data :
        d \in DOMAIN historical_data[s] /\ ref \in DOMAIN historical_data[s]}

\* (price(d) - price(ref)) / price(ref)
ReturnBetween(s, d, ref) ==
    FDiv(historical_data[s][d] - historical_data[s][ref], historical_data[s][ref])

MeanReturn(d, ref) ==
    FDiv(SumOver(PricedAtBoth(d, ref),
                 [s \in PricedAtBoth(d, ref) |-> ReturnBetween(s, d, ref)]),
         Num(Cardinality(PricedAtBoth(d, ref))))

ConstantPrices ==
    \A s \in DOMAIN historical_data :
        \A t, u \in DOMAIN historical_data[s] :
            historical_data[s][t] = historical_data[s][u]

\* exactly two symbols priced at both dates, one up 10%, the other down 10%
UpTenDownTen(d, ref) ==
    \E a, b \in PricedAtBoth(d, ref) :
        /\ PricedAtBoth(d, ref) = {a, b}
        /\ a # b
        /\ historical_data[a][d] * 10 = historical_data[a][ref] * 11
        /\ historical_data[b][d] * 10 = historical_data[b][ref] * 9

UpTenDownTenReached ==
    /\ driver = "historical"
    /\ \E i \in 2..Len(benchmark_values) :
          UpTenDownTen(BenchmarkDate(i), BenchmarkDate(i - 1))

\* C13: the benchmark of the tick at date t is computed from the closing
\* prices at date t: after every processed tick the date whose prices the
\* tracker read last is the date of that tick.
C13_BenchmarkAlignedWithTick ==
    (driver = "historical" /\ pc \in {"loop", "completed"} /\ marks # <<>>) =>
        last_benchmark_date = TickDate(Len(marks))

\* the benchmark sequence of n ticks, from the price data, the symbols and
\* the initial capital alone
RECURSIVE BenchmarkFromPrices(_)
BenchmarkFromPrices(n) ==
    IF n = 0 THEN <<>>
    ELSE IF n = 1 THEN <<initial_capital>>
    ELSE LET before == BenchmarkFromPrices(n - 1)
             d == MinDate(historical_data) + n
         IN  Append(before,
                    IF PricedAtBoth(d, d - 1) = {}
                    THEN before[n - 1]
                    ELSE FMul(before[n - 1], Num(1) + MeanReturn(d, d - 1)))

\* C14: the benchmark sequence is determined by the price data, the symbol
\* list and the initial capital alone: whatever signals the strategy gave
\* and whatever the portfolio holds, it is the sequence computed from those.
C14_BenchmarkIndependentOfStrategy ==
    driver = "historical" =>
        benchmark_values = BenchmarkFromPrices(Len(benchmark_values))

\* a run that traded while its benchmark moved away from the portfolio value
C14_Witness ==
    /\ driver = "historical"
    /\ trades # <<>>
    /\ Len(benchmark_values) >= 2
    /\ benchmark_values[2] # initial_capital
    /\ benchmark_values[2] # portfolio_history[2].total_value

----------------------------------------------------------------------------
(* The replay loop *)

\* start = max of the symbols' earliest bars, end = min of their latest
Start == SetMax({SetMin(DOMAIN historical_data[s]) : s \in DOMAIN historical_data})
End == SetMin({SetMax(DOMAIN historical_data[s]) : s \in DOMAIN historical_data})

\* the number of hourly ticks from start to end
TicksInRange == IF Start > End THEN 0 ELSE End - Start + 1

Started == driver = "historical" /\ pc # "created" /\ historical_data # <<>>

\* the ticks handed to the strategy so far are start, start+1h, ... in order
TicksInOrder ==
    \A i \in 1..Len(calls) :
        calls[i].timestamp = Start + i - 1 /\ calls[i].timestamp <= End

\* C15: a replay that has data processes exactly the ticks start, start+1h,
\* ... that are <= end, appends one history snapshot per tick, and ends by
\* completing after the last of them.
C15_ReplayCoversRange ==
    Started =>
        /\ TicksInOrder
        /\ pc \in {"loop", "completed"} => Len(portfolio_history) = Len(calls)
        /\ pc = "completed" => Len(calls) = TicksInRange
        /\ pc # "error"

\* the same, of the runs whose strategy never raises
ReplayCoversRangeUnlessStrategyRaises ==
    (Started /\ \A i \in 1..Len(calls) : ~calls[i].raised) =>
        /\ TicksInOrder
        /\ pc \in {"loop", "completed"} => Len(portfolio_history) = Len(calls)
        /\ pc = "completed" => Len(calls) = TicksInRange
        /\ pc # "error"

\* C16: when the symbols' data do not overlap (start is after end) the run
\* fails before any tick executes.
C16_NoOverlapFails ==
    (Started /\ Start > End) => (pc = "error" /\ marks = <<>>)

\* C17: the data handed to the strategy at tick t holds no bar later than t.
C17_NoLookAhead ==
    driver = "historical" =>
        \A i \in 1..Len(calls) :
            \A s \in DOMAIN calls[i].bars :
                \A t \in calls[i].bars[s] : t <= calls[i].timestamp

\* the strategy raised at the i-th tick; the tick traded nothing and the run
\* has not failed
RaiseSurvived(i) ==
    /\ \A k \in 1..Len(trades) : trades[k].timestamp # calls[i].timestamp
    /\ pc # "error"
    /\ (driver = "historical" /\ pc \in {"loop", "completed"}) =>
            Len(portfolio_history) = Len(calls)
    /\ (driver = "realtime" /\ pc = "streaming") =>
            Len(portfolio_history) = Min(Len(calls), HistoryLimit)

\* C18: in both drivers a tick at which the strategy raised executes no
\* trade, still gets its snapshot, and the run goes on without failing.
C18_StrategyErrorIsNoSignals ==
    \A i \in 1..Len(calls) : calls[i].raised => RaiseSurvived(i)

\* the same, of the live driver alone
LiveStrategyErrorIsNoSignals ==
    driver = "realtime" => \A i \in 1..Len(calls) : calls[i].raised => RaiseSurvived(i)

\* a live update at which the strategy raised, followed by a later update
LiveStrategyErrorReached ==
    /\ driver = "realtime"
    /\ \E i \in 1..Len(calls) : calls[i].raised /\ i < Len(calls)
    /\ pc = "streaming"

----------------------------------------------------------------------------
(* The live driver *)

ZeroPriceBuy ==
    /\ driver = "realtime"
    /\ Executing
    /\ NextSignal.action = "buy"
    /\ NextSignal.quantity > 0
    /\ FillPrice = 0

\* C19: in the live driver a buy signal for a symbol whose price is 0 is
\* recovered locally: it fills nothing, and the update goes on to the next
\* signal and to its snapshot, so the feed loop keeps running.
C19_ZeroPriceBuyRecovered ==
    [][ZeroPriceBuy => (pc' = "exec" /\ signals' = Tail(signals) /\ trades' = trades)]_vars

\* the number of entries a history keeps of n
Kept(n) == Min(n, HistoryLimit)

\* price_history holds the latest Kept(n) of the n updates processed
PriceWindow ==
    \A s \in DOMAIN price_history :
        /\ Len(price_history[s]) = Kept(Len(calls))
        /\ \A k \in 1..Len(price_history[s]) :
              price_history[s][k].timestamp =
                  calls[Len(calls) - Kept(Len(calls)) + k].timestamp

\* portfolio_history holds the snapshots of the latest Kept(n) of the n
\* updates processed
SnapshotWindow ==
    /\ Len(portfolio_history) = Kept(Len(calls))
    /\ \A k \in 1..Len(portfolio_history) :
          LET i == Len(calls) - Kept(Len(calls)) + k
          IN  /\ portfolio_history[k].timestamp = calls[i].timestamp
              /\ portfolio_history[k].total_value = marks[i]

\* C20: in the live driver both histories never exceed the limit, and after
\* n price updates, at every callback boundary, they hold exactly the
\* latest min(n, limit) entries in arrival order.
C20_RollingWindow ==
    driver = "realtime" =>
        /\ Len(portfolio_history) <= HistoryLimit
        /\ \A s \in DOMAIN price_history : Len(price_history[s]) <= HistoryLimit
        /\ PriceWindow
        /\ pc \in {"streaming", "returned"} => SnapshotWindow

\* the same, at the boundaries of the callbacks that ran to their end
RollingWindowOfCompletedUpdates ==
    driver = "realtime" =>
        /\ Len(portfolio_history) <= HistoryLimit
        /\ \A s \in DOMAIN price_history : Len(price_history[s]) <= HistoryLimit
        /\ PriceWindow
        /\ pc = "streaming" => SnapshotWindow

\* more updates than the limit, the oldest entries discarded
RollingWindowReached ==
    /\ driver = "realtime"
    /\ pc = "streaming"
    /\ Len(calls) > HistoryLimit
    /\ Len(portfolio_history) = HistoryLimit
    /\ portfolio_history[1].timestamp > 1

\* what a price-feed callback may change of the simulator
LiveState ==
    <<portfolio, trades, peak_value, max_drawdown, price_history, portfolio_history>>

\* a step in which stop() takes effect
StopStep == (~stopped /\ stopped') \/ (is_running /\ ~is_running')

\* C21: stop() is idempotent and never cuts a signal in two, and once it has
\* been called no later step changes cash, positions, total_value, peak,
\* max_drawdown, the ledger, the price history or the portfolio history.
C21_StopFreezesLiveState ==
    [][driver = "realtime" =>
           /\ StopStep => (signals = <<>> /\ UNCHANGED LiveState)
           /\ stopped => UNCHANGED LiveState]_vars

\* the same, of a stop() that comes after run() has begun: it stays in force
StopWhileRunningFreezes ==
    [][driver = "realtime" =>
           /\ StopStep => (signals = <<>> /\ UNCHANGED LiveState)
           /\ (stopped /\ ~is_running /\ pc # "created") =>
                  UNCHANGED <<LiveState, is_running, pc, signals>>]_vars

\* a driver stopped in the middle of its feed, after it has traded
StopWhileRunningReached ==
    /\ driver = "realtime"
    /\ stopped
    /\ ~is_running
    /\ pc = "streaming"
    /\ trades # <<>>
    /\ updates < MaxUpdates

\* C22: after stop() the price-feed loop ends and run() returns: a stopped
\* driver that has not returned can still take a step other than polling
\* and ignoring the prices.
C22_StopEndsFeedLoop ==
    (driver = "realtime" /\ stopped /\ ~is_running /\ pc = "streaming") =>
        ENABLED <<Next>>_vars

----------------------------------------------------------------------------
(* Updates against one portfolio *)

RECURSIVE LedgerCash(_)
\* the cash the first n trades leave of the initial capital
LedgerCash(n) ==
    IF n = 0 THEN initial_capital
    ELSE IF trades[n].side = "buy"
         THEN LedgerCash(n - 1) - trades[n].value
         ELSE LedgerCash(n - 1) + trades[n].value

RECURSIVE LedgerPosition(_, _)
\* the quantity of s the first n trades leave
LedgerPosition(s, n) ==
    IF n = 0 THEN 0
    ELSE IF trades[n].symbol # s THEN LedgerPosition(s, n - 1)
    ELSE IF trades[n].side = "buy"
         THEN LedgerPosition(s, n - 1) + trades[n].quantity
         ELSE LedgerPosition(s, n - 1) - trades[n].quantity

\* cash and positions are what the ledger says: no fill is half applied
LedgerConsistent ==
    /\ portfolio.cash = LedgerCash(Len(trades))
    /\ \A s \in SymbolSet :
          PositionOf(portfolio.positions, s) = LedgerPosition(s, Len(trades))

----------------------------------------------------------------------------
(* The registry of main.py *)

\* the run has ended on an exception raised while processing
RunFailed == pc = "error" \/ (driver = "realtime" /\ pc = "returned")

\* C24: when a run fails while processing, in either driver, its status is
\* 'error' with the error recorded.
C24_FailureIsTerminalError ==
    RunFailed => (status = "error" /\ error # NoError)

\* the same of the replay driver, with the status final and the partial
\* results kept
ReplayFailureIsTerminalError ==
    /\ [](pc = "error" => (status = "error" /\ error # NoError))
    /\ [][status = "error" => UNCHANGED <<status, error, trades, portfolio_history>>]_vars

\* C25: a request whose algorithm name is not in the registry of strategies
\* fails at once: no entry is registered, no run starts, no tick executes.
C25_UnknownAlgorithmRejected ==
    /\ [](algorithm_name \notin AlgorithmMap =>
             /\ status = "none"
             /\ pc \in {"requested", "rejected"}
             /\ historical_data = <<>>
             /\ ~is_running
             /\ marks = <<>>
             /\ calls = <<>>)
    /\ [][(algorithm_name \notin AlgorithmMap /\ pc = "requested") =>
             pc' = "rejected"]_vars

\* a rejected request
C25_Witness ==
    /\ algorithm_name \notin AlgorithmMap
    /\ pc = "rejected"
    /\ status = "none"

----------------------------------------------------------------------------
(* C26: the Sharpe ratio either driver reports is exactly 0 whenever the   *)
(* volatility of the per-tick returns is 0, which includes a constant      *)
(* value history and a history of fewer than two values, the information   *)
(* ratio is exactly 0 whenever the tracking error is 0, and neither is     *)
(* ever NaN or infinite.                                                   *)

Reported == Observable /\ GetPerformanceMetrics.reported

ConstantHistory ==
    \A i, j \in 1..Len(portfolio_history) :
        portfolio_history[i].total_value = portfolio_history[j].total_value

C26_RatiosGuarded ==
    Observable =>
        \A m \in {GetPerformanceMetrics} :
            m.reported =>
                /\ IsFinite(m.sharpe_ratio)
                /\ m.volatility = XFin(0) => m.sharpe_ratio = XFin(0)
                /\ ConstantHistory => m.sharpe_ratio = XFin(0)
                /\ Len(portfolio_history) < 2 => m.sharpe_ratio = XFin(0)
                /\ driver = "historical" =>
                       /\ IsFinite(m.information_ratio)
                       /\ m.tracking_error = XFin(0) => m.information_ratio = XFin(0)

\* a replay reports over a constant history with two pairs of returns and
\* no tracking error
C26_Witness ==
    /\ Reported
    /\ driver = "historical"
    /\ ConstantHistory
    /\ Len(PairedReturns(TotalValues(portfolio_history), benchmark_values,
                         Len(portfolio_history))) >= 2
    /\ GetPerformanceMetrics.tracking_error = XFin(0)
    /\ GetPerformanceMetrics.sharpe_ratio = XFin(0)
    /\ GetPerformanceMetrics.information_ratio = XFin(0)

\* a live run reports over a constant history of two values
LiveConstantReported ==
    /\ Reported
    /\ driver = "realtime"
    /\ Len(portfolio_history) >= 2
    /\ ConstantHistory
    /\ GetPerformanceMetrics.sharpe_ratio = XFin(0)

\* a live run reports a volatility that is not a number
LiveVolatilityNaNReported ==
    /\ Reported
    /\ driver = "realtime"
    /\ GetPerformanceMetrics.volatility = XNaN
    /\ GetPerformanceMetrics.sharpe_ratio = XFin(0)

\* a replay reports a Sharpe ratio other than 0
SharpeReported ==
    /\ Reported
    /\ driver = "historical"
    /\ GetPerformanceMetrics.sharpe_ratio # XFin(0)

\* a replay reports an information ratio other than 0
InformationRatioReported ==
    /\ Reported
    /\ driver = "historical"
    /\ GetPerformanceMetrics.information_ratio # XFin(0)

----------------------------------------------------------------------------
(* C27: every numeric field of the performance snapshot either driver      *)
(* returns is finite, never NaN or an infinity, for any value history,     *)
(* those that hold a total_value of 0 included.                            *)

BaseFields(m) ==
    {m.total_return, m.daily_return, m.sharpe_ratio, m.max_drawdown, m.win_rate,
     m.volatility}

AlphaFields(m) ==
    {m.benchmark_return, m.alpha, m.beta, m.excess_return, m.information_ratio,
     m.tracking_error}

NumericFields(m) ==
    IF driver = "historical" THEN BaseFields(m) \cup AlphaFields(m) ELSE BaseFields(m)

C27_MetricsFinite ==
    Reported => \A x \in NumericFields(GetPerformanceMetrics) : IsFinite(x)

\* what holds: the replay's snapshot is finite
ReplayMetricsFinite ==
    (Reported /\ driver = "historical") =>
        \A x \in NumericFields(GetPerformanceMetrics) : IsFinite(x)

\* the live run's Sharpe ratio, win rate, total return and drawdown are finite
LiveGuardedFieldsFinite ==
    (Reported /\ driver = "realtime") =>
        LET m == GetPerformanceMetrics
        IN  \A x \in {m.total_return, m.sharpe_ratio, m.max_drawdown, m.win_rate} :
                IsFinite(x)

----------------------------------------------------------------------------
(* C28: alpha, beta, information ratio, tracking error, excess return and  *)
(* benchmark return are all reported as 0 whenever fewer than 2 paired     *)
(* per-tick returns exist (fewer than 2 history entries, fewer than 2      *)
(* benchmark values, or fewer than 2 valid pairs); beta is also 0 whenever *)
(* the benchmark returns have zero variance.                               *)

AlphaMetrics == CalculateAlphaMetrics(portfolio_history, benchmark_values)

\* the ticks whose return is paired: the value and the benchmark of the
\* tick before are both other than 0
ValidPairs ==
    {i \in 2..Len(portfolio_history) :
        /\ portfolio_history[i - 1].total_value # 0
        /\ benchmark_values[i - 1] # 0}

BenchmarkReturn(i) ==
    FDiv(benchmark_values[i] - benchmark_values[i - 1], benchmark_values[i - 1])

AllZero(a) == \A x \in AlphaFields(a) : x = XFin(0)

ConstantBenchmarkReported ==
    /\ Reported
    /\ driver = "historical"
    /\ Cardinality(ValidPairs) >= 2
    /\ \A i, j \in ValidPairs : BenchmarkReturn(i) = BenchmarkReturn(j)
    /\ AlphaMetrics.beta = XFin(0)
    /\ AlphaMetrics.alpha # XFin(0)

\* a replay reports a beta other than 0
BetaReported ==
    /\ Reported
    /\ driver = "historical"
    /\ AlphaMetrics.beta # XFin(0)

----------------------------------------------------------------------------
(* C29: the win rate equals the number of sell trades in the ledger        *)
(* divided by the total number of trades in the ledger, every sell a win   *)
(* and every buy not, and is 0 when the ledger is empty, in both drivers.  *)

Sells == {k \in 1..Len(trades) : trades[k].side = "sell"}
Buys == {k \in 1..Len(trades) : trades[k].side = "buy"}

C29_WinRateIsSellShare ==
    Observable =>
        \A m \in {GetPerformanceMetrics} :
            m.reported =>
                /\ IsFinite(m.win_rate)
                /\ m.total_trades = Len(trades)
                /\ trades = <<>> => m.win_rate = XFin(0)
                /\ trades # <<>> =>
                       m.win_rate = XFin(Round(Cardinality(Sells) * Scale, Len(trades)))

\* a replay reports over a ledger of buys and sells, more of one than of
\* the other
C29_Witness ==
    /\ Reported
    /\ driver = "historical"
    /\ Sells # {}
    /\ Buys # {}
    /\ Cardinality(Sells) # Cardinality(Buys)

\* a live run reports over a ledger of buys and sells
LiveWinRateReported ==
    /\ Reported
    /\ driver = "realtime"
    /\ Sells # {}
    /\ Buys # {}

\* a snapshot is reported over an empty ledger
EmptyLedgerReported ==
    /\ Reported
    /\ trades = <<>>
    /\ GetPerformanceMetrics.win_rate = XFin(0)

----------------------------------------------------------------------------
(* C30: within a run the trade ledger is append-only: from one state to    *)
(* the next the ledger's previous content is a prefix of its new content,  *)
(* in both drivers; the live driver's truncation of its histories never    *)
(* touches the ledger.                                                     *)

IsPrefix(a, b) == Len(a) <= Len(b) /\ SubSeq(b, 1, Len(a)) = a

C30_LedgerAppendOnly == [][IsPrefix(trades, trades')]_vars

\* a live run whose histories have been truncated holds a ledger longer
\* than the histories, its first trade a buy and a later one a sell
C30_Witness ==
    /\ driver = "realtime"
    /\ updates > HistoryLimit
    /\ Len(portfolio_history) = HistoryLimit
    /\ Len(trades) > HistoryLimit
    /\ trades[1].side = "buy"
    /\ Sells # {}

\* a replay holds a ledger of two trades or more made at different ticks
ReplayLedgerGrown ==
    /\ driver = "historical"
    /\ Len(trades) >= 2
    /\ trades[1].timestamp # trades[Len(trades)].timestamp
    /\ Sells # {}

----------------------------------------------------------------------------
(* C31: every Trade in the ledger of either driver has side buy or sell,   *)
(* quantity > 0, fill price > 0 and value = quantity * price, whatever the *)
(* signals and whatever prices the source delivers, a price of 0 reported  *)
(* on a fetch failure included.                                            *)

WellFormed(trade) ==
    /\ trade.side \in {"buy", "sell"}
    /\ trade.quantity > 0
    /\ trade.price > 0
    /\ trade.value = FMul(trade.quantity, trade.price)

C31_TradesWellFormed == \A k \in 1..Len(trades) : WellFormed(trades[k])

\* what holds: the side, the value, and the signs short of strictness; a
\* buy is never filled at a price of 0
TradesWeaklyWellFormed ==
    \A k \in 1..Len(trades) :
        /\ trades[k].side \in {"buy", "sell"}
        /\ trades[k].quantity >= 0
        /\ trades[k].price >= 0
        /\ trades[k].value = FMul(trades[k].quantity, trades[k].price)
        /\ trades[k].side = "buy" => trades[k].price > 0
        /\ trades[k].side = "sell" => trades[k].quantity > 0

\* the live ledger holds a sell filled at a price of 0
ZeroPriceSellRecorded ==
    \E k \in 1..Len(trades) : trades[k].side = "sell" /\ trades[k].price = 0

----------------------------------------------------------------------------
(* C33: a buy signal whose executable quantity is zero (requested quantity *)
(* > 0 but cash is 0) appends no Trade to the ledger, so a strategy that   *)
(* keeps signalling buy after cash is exhausted does not grow the ledger.  *)

ExhaustedBuy ==
    /\ BuySignalled
    /\ portfolio.cash = 0

C33_ExhaustedBuyRecordsNothing == [][ExhaustedBuy => trades' = trades]_vars

\* what the code does with it: a buy Trade of quantity 0 and value 0 is
\* appended, cash and positions keep their values
ExhaustedBuyRecordsEmptyTrade ==
    [][ExhaustedBuy =>
          /\ Len(trades') = Len(trades) + 1
          /\ trades'[Len(trades')].side = "buy"
          /\ trades'[Len(trades')].quantity = 0
          /\ trades'[Len(trades')].value = 0
          /\ portfolio'.cash = 0
          /\ PositionOf(portfolio'.positions, NextSymbol) = HeldBefore]_vars

\* the ledger of a replay holds a buy of quantity 0
EmptyTradeRecorded ==
    /\ driver = "historical"
    /\ \E k \in 1..Len(trades) : trades[k].side = "buy" /\ trades[k].quantity = 0

----------------------------------------------------------------------------
(* C32: get_recent_trades(K) returns at most K ledger entries, namely the  *)
(* most recent min(K, ledger length) trades in ledger order with the       *)
(* newest last, for every K >= 0; K = 0 returns an empty list.             *)

\* the last n entries of the ledger, oldest first
LastTrades(n) == [k \in 1..n |-> trades[Len(trades) - n + k]]

MostRecent(K) ==
    /\ Len(GetRecentTrades(trades, K)) = Min(K, Len(trades))
    /\ GetRecentTrades(trades, K) = LastTrades(Min(K, Len(trades)))

C32_RecentTrades == \A K \in 0..MaxLimit : MostRecent(K)

\* what holds: the contract for every K >= 1
RecentTradesOfPositiveLimit == \A K \in 1..MaxLimit : MostRecent(K)

\* a limit below the length of the ledger cuts it, one above returns it all
RecentTradesCut ==
    /\ Len(trades) >= 3
    /\ Len(GetRecentTrades(trades, 2)) = 2
    /\ GetRecentTrades(trades, 2)[2] = trades[Len(trades)]
    /\ GetRecentTrades(trades, 0) = trades

----------------------------------------------------------------------------
(* C34: each snapshot the replay appends carries the timestamp of the tick *)
(* whose prices produced its valuation and trades: the first is stamped    *)
(* with the start of the range, the last with the end, and none later      *)
(* than the end.                                                           *)

C34_SnapshotStampedWithTick ==
    Started =>
        /\ \A i \in 1..Len(portfolio_history) :
              /\ portfolio_history[i].timestamp = Start + i - 1
              /\ portfolio_history[i].timestamp <= End
        /\ (pc = "completed" /\ portfolio_history # <<>>) =>
              portfolio_history[Len(portfolio_history)].timestamp = End

\* what the code does: the i-th snapshot, valued at the prices of
\* start + (i-1)h, is stamped one hour later, the last one past the end
SnapshotStampedOneHourLate ==
    Started =>
        /\ \A i \in 1..Len(portfolio_history) :
              /\ portfolio_history[i].timestamp = Start + i
              /\ i <= Len(calls) => calls[i].timestamp = Start + i - 1
        /\ (pc = "completed" /\ portfolio_history # <<>>) =>
              portfolio_history[Len(portfolio_history)].timestamp = End + 1

\* a replay has completed over a range of two ticks or more
StampedPastEndReached ==
    /\ Started
    /\ pc = "completed"
    /\ Len(portfolio_history) >= 2
    /\ portfolio_history[Len(portfolio_history)].timestamp > End

----------------------------------------------------------------------------
(* C35: the benchmark reference timestamp is set to the current tick on    *)
(* every tick, those where no symbol had valid data included; hence a      *)
(* symbol's return at a tick is measured against its price at the tick     *)
(* immediately before, and the benchmark value can change at a tick only   *)
(* if some symbol has a price at both that tick and the one before it.     *)

\* the date of the i-th tick of the replay
TickOf(i) == Start + i - 1

C35_ReferenceIsCurrentTick ==
    (Started /\ pc \in {"loop", "completed"}) =>
        /\ benchmark_values # <<>> =>
               last_benchmark_date = TickOf(Len(benchmark_values))
        /\ \A i \in 2..Len(benchmark_values) :
               benchmark_values[i] # benchmark_values[i - 1] =>
                   PricedAtBoth(TickOf(i), TickOf(i - 1)) # {}

\* what holds: the reference is the date the tracker was called with last,
\* valid data or not, each such date is one hour after the one before, and
\* a benchmark value changes only if some symbol has a price at both
ReferenceIsLastTrackerDate ==
    (Started /\ pc \in {"loop", "completed"}) =>
        /\ benchmark_values # <<>> =>
               last_benchmark_date = BenchmarkDate(Len(benchmark_values))
        /\ \A i \in 2..Len(benchmark_values) :
               /\ BenchmarkDate(i) = BenchmarkDate(i - 1) + 1
               /\ benchmark_values[i] # benchmark_values[i - 1] =>
                      PricedAtBoth(BenchmarkDate(i), BenchmarkDate(i - 1)) # {}

\* a tick where no symbol had valid data, carried forward, with a later
\* tick after it
CarriedForwardReached ==
    /\ Started
    /\ pc \in {"loop", "completed"}
    /\ \E i \in 2..(Len(benchmark_values) - 1) :
          /\ PricedAtBoth(BenchmarkDate(i), BenchmarkDate(i - 1)) = {}
          /\ benchmark_values[i] = benchmark_values[i - 1]
          /\ BenchmarkDate(i + 1) = BenchmarkDate(i) + 1

----------------------------------------------------------------------------
(* C36: a per-tick return whose previous portfolio value is 0 is excluded  *)
(* from, not zero-filled into, the average return, the volatility and the  *)
(* Sharpe ratio: in both drivers these are computed over exactly the       *)
(* returns (v[i] - v[i-1]) / v[i-1] with v[i-1] # 0.                       *)

\* the indexes whose return has a denominator other than 0
ValidIndexes(values) == {i \in 2..Len(values) : values[i - 1] # 0}

\* their returns, in order
ValidReturns(values) ==
    [k \in 1..Cardinality(ValidIndexes(values)) |->
        LET i == CHOOSE j \in ValidIndexes(values) :
                     Cardinality({h \in ValidIndexes(values) : h < j}) = k - 1
        IN  FDiv(values[i] - values[i - 1], values[i - 1])]

\* average, volatility and Sharpe ratio over the valid returns alone
OverValidReturns(m, values) ==
    LET rs == ValidReturns(values)
    IN  IF rs = <<>>
        THEN m.daily_return = XFin(0) /\ m.volatility = XFin(0) /\ m.sharpe_ratio = XFin(0)
        ELSE /\ m.daily_return = XFin(MeanOf(rs))
             /\ m.volatility = XFin(StdOf(rs))
             /\ m.sharpe_ratio =
                    IF StdOf(rs) > 0
                    THEN XFin(Round(SatMul(MeanOf(rs), Scale), StdOf(rs)))
                    ELSE XFin(0)

C36_ZeroDenominatorExcluded ==
    Observable =>
        \A m \in {GetPerformanceMetrics} :
            m.reported => OverValidReturns(m, TotalValues(portfolio_history))

\* what holds: the replay's analyzer excludes them, on its own histories
\* and on the value histories of the live runs, zeros included
ReplayAnalyzerExcludes ==
    Observable =>
        \A m \in {ReplayPerformanceMetrics(initial_capital, portfolio, portfolio_history,
                       [i \in 1..Len(portfolio_history) |-> initial_capital],
                       trades, max_drawdown)} :
            m.reported => OverValidReturns(m, TotalValues(portfolio_history))

\* a value history whose return has a denominator of 0
ZeroDenominatorReached ==
    /\ Observable
    /\ Len(portfolio_history) >= 2
    /\ ValidIndexes(TotalValues(portfolio_history)) # 2..Len(portfolio_history)

----------------------------------------------------------------------------
(* C37: the portfolio/benchmark return pair of index i enters the alpha,   *)
(* beta and tracking-error computation if and only if the portfolio value  *)
(* and the benchmark value are both other than 0 at both endpoints i-1 and *)
(* i; a pair whose later endpoint has a zero value is left out.            *)

BothEndpointsValid ==
    {i \in ValidPairs :
        portfolio_history[i].total_value # 0 /\ benchmark_values[i] # 0}

\* the pairs of returns of a set of indexes, in order
PairsOf(I) ==
    [k \in 1..Cardinality(I) |->
        LET i == CHOOSE j \in I : Cardinality({h \in I : h < j}) = k - 1
        IN  <<FDiv(portfolio_history[i].total_value - portfolio_history[i - 1].total_value,
                   portfolio_history[i - 1].total_value),
              BenchmarkReturn(i)>>]

\* the pairs the computation works on
PairsEntered ==
    PairedReturns(TotalValues(portfolio_history), benchmark_values, Len(portfolio_history))

AfterTick == driver = "historical" /\ Len(benchmark_values) = Len(portfolio_history)

C37_PairNeedsBothEndpoints == AfterTick => PairsEntered = PairsOf(BothEndpointsValid)

\* what holds: a pair enters if and only if both values are other than 0
\* at its earlier endpoint
PairNeedsEarlierEndpoint == AfterTick => PairsEntered = PairsOf(ValidPairs)

\* a replay whose value fell to 0 at a tick and was not 0 the tick before:
\* the pair of that tick has entered with a return of -100%
ZeroLaterEndpointEntered ==
    /\ AfterTick
    /\ \E i \in ValidPairs : portfolio_history[i].total_value = 0
    /\ \E k \in 1..Len(PairsEntered) : PairsEntered[k][1] = -Num(1)

----------------------------------------------------------------------------
(* C38: beta is covariance(portfolio returns, benchmark returns) over      *)
(* variance(benchmark returns), both under the same normalisation, so a    *)
(* portfolio whose paired per-tick returns are identical to the            *)
(* benchmark's, of a variance other than 0, has beta exactly 1 and alpha   *)
(* exactly 0, for every number n >= 2 of paired returns.                   *)

\* the value history of a portfolio that is worth the benchmark at every tick
Tracker ==
    [i \in 1..Len(portfolio_history) |->
        [portfolio_history[i] EXCEPT !.total_value = benchmark_values[i]]]

TrackerPairs ==
    PairedReturns(benchmark_values, benchmark_values, Len(benchmark_values))

\* two paired returns or more, not all the same
Tracked ==
    /\ AfterTick
    /\ Len(TrackerPairs) >= 2
    /\ \E j, k \in 1..Len(TrackerPairs) : TrackerPairs[j][2] # TrackerPairs[k][2]

C38_TrackerHasBetaOne ==
    Tracked =>
        \A a \in {CalculateAlphaMetrics(Tracker, benchmark_values)} :
            a.beta = XFin(Num(1)) /\ a.alpha = XFin(0)

\* what holds: np.cov divides by n - 1 and np.var by n, so the beta of the
\* tracker is n / (n - 1), and its alpha the mean return times -1 / (n - 1)
TrackerHasBetaNOverNMinusOne ==
    Tracked =>
        \A a \in {CalculateAlphaMetrics(Tracker, benchmark_values)} :
            LET n == Len(TrackerPairs)
                mean == MeanOf([k \in 1..n |-> TrackerPairs[k][2]])
            IN  /\ a.beta = XFin(Round(n * Num(1), n - 1))
                /\ a.alpha = XFin(mean - FMul(Round(n * Num(1), n - 1), mean))

\* a benchmark of two returns, not the same, whose mean is not 0
TrackedReached ==
    /\ Tracked
    /\ Len(TrackerPairs) = 2
    /\ TrackerPairs[1][2] + TrackerPairs[2][2] # 0

----------------------------------------------------------------------------
(* C39: run() on a HistoricalSimulator starts from a fresh state whatever  *)
(* its earlier use: before the first tick cash = total_value =             *)
(* initial_capital, positions, ledger, portfolio history and benchmark     *)
(* sequence are empty, the benchmark reference is unset, peak =            *)
(* initial_capital and max_drawdown = 0; so a second run over the same     *)
(* data starts from the very state the first one started from.             *)

\* the state run() leaves before its first tick
FreshStart ==
    /\ portfolio = NewPortfolio(initial_capital)
    /\ portfolio.cash = initial_capital
    /\ portfolio.total_value = initial_capital
    /\ portfolio.positions = <<>>
    /\ trades = <<>>
    /\ portfolio_history = <<>>
    /\ benchmark_values = <<>>
    /\ last_benchmark_date = NoDate
    /\ peak_value = initial_capital
    /\ max_drawdown = 0
    /\ signals = <<>>
    /\ historical_data = [s \in Fetched |-> market[s]]
    /\ historical_data # <<>> => current_date = MinDate(historical_data)

\* a step that enters run(): the first time, or again after a run has ended
EntersRun ==
    /\ driver = "historical"
    /\ pc \in {"created", "completed", "error"}
    /\ pc' \in {"loop", "error"}

C39_RunStartsFresh ==
    [][EntersRun => (FreshStart' /\ config' = config)]_vars

\* run() has been entered again after a run that traded and drew down
\* completed: its state is the fresh one, the status still that of the
\* earlier run
C39_Witness ==
    /\ pc = "loop"
    /\ status = "completed"
    /\ current_prices # <<>>
    /\ marks = <<>>
    /\ FreshStart

\* a run has ended with trades, snapshots and a drawdown: the earlier use
UsedReached ==
    /\ driver = "historical"
    /\ pc = "completed"
    /\ trades # <<>>
    /\ portfolio_history # <<>>
    /\ max_drawdown > 0
    /\ portfolio.positions # <<>>
    /\ ENABLED RunAgain

----------------------------------------------------------------------------
(* C40: simulations started through the HTTP API never share a simulation  *)
(* id, even when two start requests arrive within the same second: each    *)
(* registry entry keeps its own simulator, and the status under an id is   *)
(* written only by the task running that entry's simulator, so a           *)
(* simulation never shows "completed" while its own run is in progress.    *)

\* the tasks whose requests stored an entry
TaskNumbers == 1..Len(tasks)

\* run() of simulator s has been called and has not ended
InProgress(s) == \E k \in TaskNumbers : tasks[k].pc = "running" /\ tasks[k].simulator = s

DistinctIds ==
    \A j, k \in TaskNumbers : j # k => tasks[j].simulation_id # tasks[k].simulation_id

\* every simulator that was constructed is the one stored under its id
EntryKeepsSimulator ==
    \A k \in TaskNumbers : active_simulations[tasks[k].simulation_id].simulator = tasks[k].constructed

\* every task runs the simulator its own request constructed
TaskRunsOwnSimulator ==
    \A k \in TaskNumbers : tasks[k].pc # "scheduled" => tasks[k].simulator = tasks[k].constructed

CompletedOnlyAfterRun ==
    \A id \in DOMAIN active_simulations :
        active_simulations[id].status = "completed" =>
            ~InProgress(active_simulations[id].simulator)

C40_OwnIdOwnStatus ==
    /\ DistinctIds
    /\ EntryKeepsSimulator
    /\ TaskRunsOwnSimulator
    /\ CompletedOnlyAfterRun

\* two replays started in the same second: the entry holds the second
\* simulator, shows "completed", and that simulator's run is in progress
SharedIdShowsCompleted ==
    \E id \in DOMAIN active_simulations :
        /\ active_simulations[id].status = "completed"
        /\ active_simulations[id].simulator = 2
        /\ InProgress(2)
        /\ tasks[1].simulator = 1

\* only requests of one kind share an id, and while no two requests share
\* one the entries, the tasks and the statuses are as the claim says
OwnStatusUnderDistinctIds ==
    /\ \A j, k \in TaskNumbers :
           (j # k /\ tasks[j].simulation_id = tasks[k].simulation_id) =>
               tasks[j].type = tasks[k].type
    /\ DistinctIds => (EntryKeepsSimulator /\ TaskRunsOwnSimulator /\ CompletedOnlyAfterRun)

\* two simulations with different ids, one completed while the other runs
DistinctIdsReached ==
    /\ Len(tasks) = 2
    /\ DistinctIds
    /\ tasks[1].type = tasks[2].type
    /\ active_simulations[tasks[1].simulation_id].status = "completed"
    /\ tasks[2].pc = "running"

====
